---- MODULE Spec2Model ----
(***************************************************************************)
(* Top-Down / Bottom-Up stochastic block partitioning.                     *)
(*                                                                         *)
(* The model follows the C++ sources:                                      *)
(*   BlockModel, Graph            src/src/headers/utils/sbp_aliases.hpp    *)
(*   compute_H, mcmc_proposal,                                             *)
(*   compute_delta_H_merge,                                                *)
(*   mcmc_refine                  src/src/headers/utils/sbp_utils.hpp      *)
(*   constants                    src/unnamed/part_004                     *)
(*   bottom_up_sbp                src/unnamed/part_006                     *)
(*   connectivity_snowball_split,                                          *)
(*   extract_subgraphs_parallel,                                           *)
(*   top_down_sbp                 src/unnamed/part_007                     *)
(*                                                                         *)
(* Conventions.  A std::vector indexed by a vertex or cluster id is a      *)
(* function on 0..n-1; a neighbour list is a sequence.  A double holding a *)
(* description length is a fixed-point integer (unit 10^-6) computed from  *)
(* the table Ln, which is additive over prime factorisations, so two       *)
(* description lengths that are equal as real numbers are equal here.      *)
(* The last bits of a double sum depend on the order of its terms; where   *)
(* mcmc_refine compares the sums of two different models the model carries *)
(* a rounding rank beside the exact value (see DoubleLess).                *)
(***************************************************************************)
EXTENDS Integers, Sequences, FiniteSets, TLC

VARIABLES
    G,                  \* the caller's Graph (adjacency_list)
    bm,                 \* the master BlockModel
    algorithm,          \* "api" | "top_down" | "bottom_up"
    pc,                 \* control location of the running call
    ret,                \* where mcmc_refine returns to
    target,             \* max_clusters (top-down) / target_clusters (bottom-up)
    proposals_per_split,
    iter,               \* mcmc_refine: loop counter
    num_iterations,     \* mcmc_refine: iterations of this call
    round,              \* rounding rank of compute_H(bm) inside mcmc_refine
    h_start,            \* compute_H(bm) on entry of mcmc_refine
    forced_merge,       \* bottom_up_sbp: the flag of the current iteration
    frame,              \* mcmc_refine: the locals of the iteration in progress
    explored,           \* mcmc_refine iterations explored so far in this run
    commits,            \* number of split / merge commits so far
    last,               \* the last operation performed (history)
    result,             \* arguments and return value of the last direct call
    par                 \* the parallel region in progress: workers' locals

vars == <<G, bm, algorithm, pc, ret, target, proposals_per_split, iter,
          num_iterations, round, h_start, forced_merge, frame, explored,
          commits, last, result, par>>

-----------------------------------------------------------------------------
(* Bounds of the model *)

MaxN == 3        \* vertices of the enumerated input graphs
MaxK == 2        \* cluster_count of a BlockModel built through the API
McmcCap == 2     \* mcmc_refine iterations explored in one run
MaxRound == 1    \* rounding ranks 0..MaxRound of a double sum
MaxTie == 4      \* cluster counts up to which every order of ties is explored
MaxTarget == 3   \* max_clusters / target_clusters of a driver call
MaxP == 1        \* proposals_per_split of a top_down_sbp call
MaxWorkers == 2  \* threads of a parallel region
ChunkSize == 1   \* OMP_CHUNK_SIZE, scaled down to the graphs of the model
StarN == 15      \* vertices of the star graph given to bottom_up_sbp
BatchN == 4      \* vertices of the graphs on which a merge batch has two merges
SnowN == 4       \* vertices of the largest subgraph handed to the snowball split
SnowP == 2       \* largest iteration_proposal of a direct snowball call
ExtractK == 3    \* largest cluster count of a model handed to the extraction

(* Program constants *)

nullCluster == -1
minClusterCount == 1
binarySplitCount == 2
mcmcRefinementMultiplier == 10
bottomUpMcmcMultiplier == 50
maxBottomUpMcmcIters == 2000
mcmcThresholdDivisor == 5
splitToleranceDivisor == 20      \* 1 / splitToleranceFactor (0.05)
mergeBatchSizeDivisor == 2       \* 1 / mergeBatchSizeFactor (0.5)
forcedMergeMcmcMultiplier == 100

\* inf = 1e18: larger than every description length; kept inside 32 bits
inf == 2000000000

-----------------------------------------------------------------------------
(* Small helpers *)

Min(a, b) == IF a < b THEN a ELSE b

Abs(a) == IF a < 0 THEN -a ELSE a

RECURSIVE SortedSeq(_)
SortedSeq(S) ==
    IF S = {} THEN <<>>
    ELSE LET m == CHOOSE x \in S : \A y \in S : x <= y
         IN  <<m>> \o SortedSeq(S \ {m})

RECURSIVE SumOver(_, _)
SumOver(f, S) ==
    IF S = {} THEN 0
    ELSE LET x == CHOOSE y \in S : TRUE
         IN  f[x] + SumOver(f, S \ {x})

(* 10^6 * ln(m) for m = 1..64, additive: Ln[a*b] = Ln[a] + Ln[b] *)
Ln == <<
      0, 693147, 1098612, 1386294, 1609438, 1791759, 1945910, 2079441,
      2197224, 2302585, 2397895, 2484906, 2564949, 2639057, 2708050, 2772588,
      2833213, 2890371, 2944439, 2995732, 3044522, 3091042, 3135494, 3178053,
      3218876, 3258096, 3295836, 3332204, 3367296, 3401197, 3433987, 3465735,
      3496507, 3526360, 3555348, 3583518, 3610918, 3637586, 3663561, 3688879,
      3713572, 3737669, 3761200, 3784189, 3806662, 3828641, 3850148, 3871200,
      3891820, 3912023, 3931825, 3951243, 3970292, 3988983, 4007333, 4025351,
      4043051, 4060443, 4077537, 4094344, 4110874, 4127134, 4143134, 4158882 >>

-----------------------------------------------------------------------------
(* Graph *)

get_vertex_count(graph) == Cardinality(DOMAIN graph)

RECURSIVE DegreeSum(_, _)
DegreeSum(graph, u) ==
    IF u >= get_vertex_count(graph) THEN 0
    ELSE Len(graph[u]) + DegreeSum(graph, u + 1)

get_edge_count(graph) == DegreeSum(graph, 0) \div 2

(* The input graphs: every simple undirected graph on 1..MaxN vertices *)
VertexPairs(N) == {p \in (0..N-1) \X (0..N-1) : p[1] < p[2]}

MakeGraph(N, E) ==
    [u \in 0..N-1 |->
        SortedSeq({v \in 0..N-1 : <<u, v>> \in E \/ <<v, u>> \in E})]

SmallGraphs ==
    UNION {{MakeGraph(N, E) : E \in SUBSET VertexPairs(N)} : N \in 1..MaxN}

-----------------------------------------------------------------------------
(* BlockModel *)

BlockModel(graph, cluster_count) ==
    [graph              |-> graph,
     cluster_count      |-> cluster_count,
     clusters_sizes     |-> [r \in 0..cluster_count-1 |-> 0],
     cluster_assignment |-> [v \in DOMAIN graph |-> nullCluster],
     block_matrix       |-> [r \in 0..cluster_count-1 |->
                                [s \in 0..cluster_count-1 |-> 0]]]

(* block_matrix has exactly cluster_count rows and columns in every state *)
(* of the model, so the three range tests of the code coincide.           *)
InRange(block_model, cluster) ==
    cluster >= 0 /\ cluster < block_model.cluster_count

(* Faulty variant of the inner loop: an undirected edge is counted once, *)
(* from its lower endpoint                                              *)
RECURSIVE update_matrix_row_once(_, _, _, _)
update_matrix_row_once(block_model, B, vertex_u, i) ==
    LET neighbours == block_model.graph[vertex_u]
        cluster_u  == block_model.cluster_assignment[vertex_u]
    IN  IF i > Len(neighbours) THEN B
        ELSE LET vertex_v  == neighbours[i]
                 cluster_v == block_model.cluster_assignment[vertex_v]
             IN  IF vertex_v < vertex_u \/ ~InRange(block_model, cluster_v)
                 THEN update_matrix_row_once(block_model, B, vertex_u, i + 1)
                 ELSE update_matrix_row_once(
                          block_model,
                          [B EXCEPT ![cluster_u][cluster_v] = @ + 1],
                          vertex_u, i + 1)

(* update_matrix: the inner loop over adjacency_list[vertex_u] *)
RECURSIVE update_matrix_row(_, _, _, _)
update_matrix_row(block_model, B, vertex_u, i) ==
    LET neighbours == block_model.graph[vertex_u]
        cluster_u  == block_model.cluster_assignment[vertex_u]
    IN  IF i > Len(neighbours) THEN B
        ELSE LET vertex_v == neighbours[i]
             IN  IF vertex_v < 0
                    \/ vertex_v >= Cardinality(DOMAIN block_model.cluster_assignment)
                 THEN update_matrix_row(block_model, B, vertex_u, i + 1)
                 ELSE LET cluster_v == block_model.cluster_assignment[vertex_v]
                      IN  IF ~InRange(block_model, cluster_v)
                          THEN update_matrix_row(block_model, B, vertex_u, i + 1)
                          ELSE update_matrix_row(block_model,
                                   [B EXCEPT ![cluster_u][cluster_v] = @ + 1],
                                   vertex_u, i + 1)

(* update_matrix: the loop over the vertices; the atomic increments of the *)
(* parallel loop commute, so the vertex order does not matter             *)
RECURSIVE update_matrix_loop(_, _, _, _)
update_matrix_loop(block_model, B, sizes, vertex_u) ==
    IF vertex_u >= Cardinality(DOMAIN block_model.cluster_assignment)
    THEN [block_model EXCEPT !.block_matrix = B, !.clusters_sizes = sizes]
    ELSE IF vertex_u >= get_vertex_count(block_model.graph)
            \/ ~InRange(block_model, block_model.cluster_assignment[vertex_u])
         THEN update_matrix_loop(block_model, B, sizes, vertex_u + 1)
         ELSE update_matrix_loop(
                  block_model,
                  update_matrix_row(block_model, B, vertex_u, 1),
                  [sizes EXCEPT ![block_model.cluster_assignment[vertex_u]] = @ + 1],
                  vertex_u + 1)

(* Faulty variant: block_matrix and clusters_sizes are not reset first *)
update_matrix_accumulate(block_model) ==
    IF block_model.cluster_count <= 0 THEN block_model
    ELSE update_matrix_loop(block_model, block_model.block_matrix,
                            block_model.clusters_sizes, 0)

(* Faulty variant: clusters_sizes is not reset first *)
update_matrix_sizes_kept(block_model) ==
    IF block_model.cluster_count <= 0 THEN block_model
    ELSE update_matrix_loop(
             block_model,
             [r \in 0..block_model.cluster_count-1 |->
                 [s \in 0..block_model.cluster_count-1 |-> 0]],
             block_model.clusters_sizes,
             0)

update_matrix(block_model) ==
    IF block_model.cluster_count <= 0 THEN block_model
    ELSE update_matrix_loop(
             block_model,
             [r \in 0..block_model.cluster_count-1 |->
                 [s \in 0..block_model.cluster_count-1 |-> 0]],
             [r \in 0..block_model.cluster_count-1 |-> 0],
             0)

(* Faulty variants of the four updates, used to test the properties below: *)
(* the contributions of the old cluster are never removed                 *)
move_vertex_neighbour_keep_old(B, old_cluster, new_cluster, neighbour_cluster) ==
    LET B3 == [B EXCEPT ![new_cluster][neighbour_cluster] = @ + 1]
    IN  [B3 EXCEPT ![neighbour_cluster][new_cluster] = @ + 1]

(* only the rows of the moved vertex are updated, not the mirrored entries *)
move_vertex_neighbour_one_sided(B, old_cluster, new_cluster, neighbour_cluster) ==
    LET B1 == [B EXCEPT ![old_cluster][neighbour_cluster] = @ - 1]
    IN  [B1 EXCEPT ![new_cluster][neighbour_cluster] = @ + 1]

(* move_vertex: the four updates made for one neighbour *)
move_vertex_neighbour(B, old_cluster, new_cluster, neighbour_cluster) ==
    LET B1 == [B  EXCEPT ![old_cluster][neighbour_cluster] = @ - 1]
        B2 == [B1 EXCEPT ![neighbour_cluster][old_cluster] = @ - 1]
        B3 == [B2 EXCEPT ![new_cluster][neighbour_cluster] = @ + 1]
    IN  [B3 EXCEPT ![neighbour_cluster][new_cluster] = @ + 1]

(* move_vertex: the loop over adjacency_list[vertex] *)
RECURSIVE move_vertex_loop(_, _, _, _, _)
move_vertex_loop(block_model, B, vertex, new_cluster, i) ==
    LET neighbours  == block_model.graph[vertex]
        old_cluster == block_model.cluster_assignment[vertex]
    IN  IF i > Len(neighbours) THEN B
        ELSE LET neighbour == neighbours[i]
             IN  IF neighbour < 0
                    \/ neighbour >= Cardinality(DOMAIN block_model.cluster_assignment)
                 THEN move_vertex_loop(block_model, B, vertex, new_cluster, i + 1)
                 ELSE LET neighbour_cluster ==
                              block_model.cluster_assignment[neighbour]
                      IN  IF ~InRange(block_model, neighbour_cluster)
                             \/ ~InRange(block_model, new_cluster)
                          THEN move_vertex_loop(block_model, B, vertex,
                                                new_cluster, i + 1)
                          ELSE move_vertex_loop(
                                   block_model,
                                   move_vertex_neighbour(B, old_cluster,
                                       new_cluster, neighbour_cluster),
                                   vertex, new_cluster, i + 1)

(* Faulty variant: the moved vertex is not taken out of, or added to, the  *)
(* sizes of the two clusters                                              *)
move_vertex_sizes_kept(block_model, vertex, new_cluster) ==
    IF block_model.cluster_assignment[vertex] = new_cluster THEN block_model
    ELSE [block_model EXCEPT
             !.block_matrix =
                 move_vertex_loop(block_model, @, vertex, new_cluster, 1),
             !.cluster_assignment = [@ EXCEPT ![vertex] = new_cluster]]

(* move_vertex, for a new_cluster in [0, cluster_count): the actions below *)
(* call it with such a target only                                         *)
move_vertex(block_model, vertex, new_cluster) ==
    IF vertex < 0 \/ vertex >= Cardinality(DOMAIN block_model.cluster_assignment)
    THEN block_model
    ELSE LET old_cluster == block_model.cluster_assignment[vertex]
         IN  IF old_cluster = new_cluster THEN block_model
             ELSE IF ~InRange(block_model, old_cluster) THEN block_model
             ELSE IF vertex >= get_vertex_count(block_model.graph)
             THEN block_model
             ELSE [block_model EXCEPT
                      !.block_matrix =
                          move_vertex_loop(block_model, @, vertex, new_cluster, 1),
                      !.clusters_sizes =
                          [[@ EXCEPT ![old_cluster] = @ - 1]
                              EXCEPT ![new_cluster] = @ + 1],
                      !.cluster_assignment = [@ EXCEPT ![vertex] = new_cluster]]

-----------------------------------------------------------------------------
(* MDL objective *)

(* compute_H: the term added to entropy for the pair (i, j);               *)
(* log(B/(n_i*n_j)) = Ln[B] - Ln[n_i] - Ln[n_j]                            *)
entropy_term(block_model, i, j) ==
    IF block_model.clusters_sizes[i] = 0 THEN 0
    ELSE IF block_model.clusters_sizes[j] = 0
            \/ block_model.block_matrix[i][j] <= 0 THEN 0
    ELSE block_model.block_matrix[i][j]
            * (Ln[block_model.block_matrix[i][j]]
               - Ln[block_model.clusters_sizes[i]]
               - Ln[block_model.clusters_sizes[j]])

(* compute_H: the double loop, pair number k = i * cluster_count + j *)
RECURSIVE entropy_loop(_, _)
entropy_loop(block_model, k) ==
    IF k >= block_model.cluster_count * block_model.cluster_count THEN 0
    ELSE entropy_term(block_model, k \div block_model.cluster_count,
                                   k % block_model.cluster_count)
         + entropy_loop(block_model, k + 1)

model_complexity(cluster_count, vertex_count) ==
    ((cluster_count * (cluster_count + 1)) \div 2) * Ln[vertex_count]

(* compute_H.  A model without a graph is the default-constructed one,     *)
(* which has cluster_count = 0.                                            *)
compute_H(block_model) ==
    IF block_model.cluster_count <= 0 THEN inf
    ELSE - entropy_loop(block_model, 0)
         + model_complexity(block_model.cluster_count,
                            get_vertex_count(block_model.graph))

(* A double: the exact value x and the rounding rank r of the sum that     *)
(* produced it.  Two sums with different exact values compare as these do; *)
(* two sums of different terms with the same exact value may differ in the *)
(* last bits either way, which the ranks decide.                           *)
Double(x, r) == [x |-> x, r |-> r]

DoubleLess(a, b) == a.x < b.x \/ (a.x = b.x /\ a.r < b.r)

-----------------------------------------------------------------------------
(* MCMC refinement *)

(* mcmc_proposal: the cumulative scan over cluster_weights (a std::map,    *)
(* ascending cluster id) for the drawn rand_weight                         *)
RECURSIVE weighted_pick(_, _, _, _, _)
weighted_pick(block_model, neighbor_cluster, rand_weight, cluster, cumulative) ==
    IF cluster >= block_model.cluster_count THEN neighbor_cluster
    ELSE LET weight == block_model.block_matrix[neighbor_cluster][cluster]
         IN  IF weight <= 0
             THEN weighted_pick(block_model, neighbor_cluster, rand_weight,
                                cluster + 1, cumulative)
             ELSE IF rand_weight < cumulative + weight THEN cluster
             ELSE weighted_pick(block_model, neighbor_cluster, rand_weight,
                                cluster + 1, cumulative + weight)

total_weight(block_model, neighbor_cluster) ==
    SumOver(block_model.block_matrix[neighbor_cluster],
            {i \in 0..block_model.cluster_count-1 :
                block_model.block_matrix[neighbor_cluster][i] > 0})

(* Faulty variant: the proposal is uniform over the clusters *)
mcmc_proposal_uniform(graph, block_model, vertex) ==
    0..block_model.cluster_count-1

(* mcmc_proposal: every cluster the call can return for this vertex, over  *)
(* the draws of the neighbour index and of rand_weight                     *)
mcmc_proposal(graph, block_model, vertex) ==
    LET neighbors == graph[vertex]
    IN  IF Len(neighbors) = 0
        THEN {block_model.cluster_assignment[vertex]}
        ELSE UNION {
               LET neighbor_cluster ==
                       block_model.cluster_assignment[neighbors[rand_index]]
                   total == total_weight(block_model, neighbor_cluster)
               IN  IF total = 0 THEN {neighbor_cluster}
                   ELSE {weighted_pick(block_model, neighbor_cluster,
                                       rand_weight, 0, 0) :
                            rand_weight \in 0..total-1}
               : rand_index \in 1..Len(neighbors)}

Op(op, vertex, old_cluster, new_cluster) ==
    [op |-> op, vertex |-> vertex,
     old_cluster |-> old_cluster, new_cluster |-> new_cluster]

(* A default-constructed BlockModel: no graph, cluster_count 0 *)
DefaultBlockModel == BlockModel([v \in {} |-> <<>>], 0)

(* mcmc_refine: vertex and old_cluster of the iteration in progress, and   *)
(* the model as it was when h_before was computed from it                  *)
NoFrame ==
    [vertex |-> -1, old_cluster |-> nullCluster, before |-> DefaultBlockModel]

(* no direct call has returned; no parallel region is open *)
NoResult == [call |-> "none"]

NoPar == [region |-> "none"]

(* the assignment that an earlier call of the same driver returned, kept   *)
(* in result while the driver is called again; <<>> when there is none     *)
FirstAssignment == IF result.call = "none" THEN <<>> ELSE result.first

(* mcmc_refine: entry.  count is the num_iterations argument.  The model   *)
(* explores the first McmcCap iterations that a run makes in mcmc_refine;  *)
(* the iterations after them are not explored.                             *)
mcmc_refine_enter(block_model, count, return_to) ==
    /\ iter' = 0
    /\ ret' = return_to
    /\ frame' = NoFrame
    /\ explored' = explored
    /\ IF block_model.cluster_count <= 1 \/ Min(count, McmcCap - explored) <= 0
       THEN /\ pc' = return_to
            /\ num_iterations' = 0
            /\ round' = 0
       ELSE /\ pc' = "mcmc"
            /\ num_iterations' = Min(count, McmcCap - explored)
            /\ round' \in 0..MaxRound
    /\ h_start' = Double(compute_H(block_model), round')

(* Faulty variant: the comparison is turned round *)
mcmc_reject_when_lower(h_after, h_before) == ~DoubleLess(h_before, h_after)

(* mcmc_refine: the test h_after >= h_before that reverts the move *)
mcmc_reject(h_after, h_before) == ~DoubleLess(h_after, h_before)

(* mcmc_refine: an iteration up to the call of move_vertex *)
McmcPropose ==
    /\ pc = "mcmc"
    /\ iter < num_iterations
    /\ \E vertex \in 0..get_vertex_count(bm.graph)-1 :
       \E new_cluster \in mcmc_proposal(bm.graph, bm, vertex) :
          LET old_cluster == bm.cluster_assignment[vertex]
          IN  IF new_cluster = old_cluster
              THEN /\ iter' = iter + 1
                   /\ explored' = explored + 1
                   /\ pc' = IF iter + 1 < num_iterations THEN "mcmc" ELSE ret
                   /\ last' = Op("mcmc_same", -1, -1, -1)
                   /\ UNCHANGED <<bm, frame>>
              ELSE /\ bm' = move_vertex(bm, vertex, new_cluster)
                   /\ frame' = [vertex |-> vertex, old_cluster |-> old_cluster,
                                before |-> bm]
                   /\ pc' = "mcmc_moved"
                   /\ last' = Op("mcmc_move", vertex, old_cluster, new_cluster)
                   /\ UNCHANGED <<iter, explored>>
    /\ UNCHANGED <<G, algorithm, ret, target, proposals_per_split,
                   num_iterations, round, h_start, forced_merge, commits>>
    /\ UNCHANGED <<result, par>>

(* mcmc_refine: the rest of the iteration, from h_after on *)
McmcDecide ==
    /\ pc = "mcmc_moved"
    /\ \E rank \in 0..MaxRound :
          LET h_before == Double(compute_H(frame.before), round)
              h_after  == Double(compute_H(bm), rank)
          IN  IF mcmc_reject(h_after, h_before)
              THEN /\ bm' = move_vertex(bm, frame.vertex, frame.old_cluster)
                   /\ round' = round
                   /\ last' = Op("mcmc_revert", -1, -1, -1)
              ELSE /\ bm' = bm
                   /\ round' = rank
                   /\ last' = Op("mcmc_keep", -1, -1, -1)
    /\ iter' = iter + 1
    /\ explored' = explored + 1
    /\ pc' = IF iter + 1 < num_iterations THEN "mcmc" ELSE ret
    /\ frame' = NoFrame
    /\ UNCHANGED <<G, algorithm, ret, target, proposals_per_split,
                   num_iterations, h_start, forced_merge, commits>>
    /\ UNCHANGED <<result, par>>

-----------------------------------------------------------------------------
(* The BlockModel interface, driven by a caller *)

AllAssigned(block_model) ==
    \A v \in DOMAIN block_model.cluster_assignment :
        InRange(block_model, block_model.cluster_assignment[v])

(* B and clusters_sizes are what update_matrix computes from a complete    *)
(* assignment                                                              *)
Consistent(block_model) ==
    /\ AllAssigned(block_model)
    /\ block_model = update_matrix(block_model)

InitApi ==
    /\ G \in SmallGraphs
    /\ \E K \in 0..MaxK : bm = BlockModel(G, K)
    /\ algorithm = "api"
    /\ pc = "fill"
    /\ ret = "ready"
    /\ target = 0
    /\ proposals_per_split = 0
    /\ iter = 0
    /\ num_iterations = 0
    /\ round = 0
    /\ h_start = Double(0, 0)
    /\ forced_merge = FALSE
    /\ frame = NoFrame
    /\ explored = 0
    /\ commits = 0
    /\ last = Op("construct", -1, -1, -1)
    /\ result = NoResult
    /\ par = NoPar

(* the caller writes cluster_assignment[vertex]; cluster_count itself is a *)
(* value outside [0, cluster_count)                                        *)
WriteAssignment ==
    /\ pc = "fill"
    /\ \E vertex \in DOMAIN bm.cluster_assignment :
       \E cluster \in 0..bm.cluster_count :
          /\ bm' = [bm EXCEPT !.cluster_assignment[vertex] = cluster]
          /\ last' = Op("write", -1, -1, -1)
    /\ UNCHANGED <<G, algorithm, pc, ret, target, proposals_per_split, iter,
                   num_iterations, round, h_start, forced_merge, frame,
                   explored, commits>>
    /\ UNCHANGED <<result, par>>

UpdateMatrix ==
    /\ pc \in {"fill", "ready"}
    /\ bm' = update_matrix(bm)
    /\ pc' = "ready"
    /\ last' = Op("update_matrix", -1, -1, -1)
    /\ UNCHANGED <<G, algorithm, ret, target, proposals_per_split, iter,
                   num_iterations, round, h_start, forced_merge, frame,
                   explored, commits>>
    /\ UNCHANGED <<result, par>>

MoveVertex ==
    /\ pc = "ready"
    /\ \E vertex \in DOMAIN bm.cluster_assignment :
       \E new_cluster \in 0..bm.cluster_count-1 :
          /\ bm' = move_vertex(bm, vertex, new_cluster)
          /\ last' = Op("move_vertex", vertex,
                        bm.cluster_assignment[vertex], new_cluster)
    /\ UNCHANGED <<G, algorithm, pc, ret, target, proposals_per_split, iter,
                   num_iterations, round, h_start, forced_merge, frame,
                   explored, commits>>
    /\ UNCHANGED <<result, par>>

Next ==
    \/ WriteAssignment
    \/ UpdateMatrix
    \/ MoveVertex

Spec == InitApi /\ [][Next]_vars

-----------------------------------------------------------------------------
(* Quantities the properties speak about *)

Symmetric(block_model) ==
    \A r, s \in 0..block_model.cluster_count-1 :
        block_model.block_matrix[r][s] = block_model.block_matrix[s][r]

(* the sum of all entries of block_matrix *)
MatrixSum(block_model) ==
    LET rows == 0..block_model.cluster_count-1
        row_sum == [r \in rows |-> SumOver(block_model.block_matrix[r], rows)]
    IN  SumOver(row_sum, rows)

SizesSum(block_model) ==
    SumOver(block_model.clusters_sizes, 0..block_model.cluster_count-1)

Members(block_model, r) ==
    {v \in DOMAIN block_model.cluster_assignment :
        block_model.cluster_assignment[v] = r}

(* vertices whose assignment is a cluster of the model, and the adjacency *)
(* entries between two such vertices                                     *)
AssignedVertices(block_model) ==
    {v \in DOMAIN block_model.cluster_assignment :
        InRange(block_model, block_model.cluster_assignment[v])}

AssignedHalfEdges(block_model) ==
    {e \in AssignedVertices(block_model) \X AssignedVertices(block_model) :
        \E i \in 1..Len(block_model.graph[e[1]]) :
            block_model.graph[e[1]][i] = e[2]}

-----------------------------------------------------------------------------
(* Properties of the BlockModel interface (specification Spec) *)

\* C1: incremental equivalence.  On a model whose B and clusters_sizes come
\* from update_matrix over a complete assignment, move_vertex(v, b) with
\* b in [0,K), b # assignment[v], leaves exactly the model that writing
\* assignment[v] = b and calling a fresh update_matrix would leave.
C1_IncrementalEquivalence ==
    [][ (/\ last'.op = "move_vertex"
         /\ Consistent(bm)
         /\ last'.new_cluster # last'.old_cluster)
        => bm' = update_matrix(
                     [bm EXCEPT !.cluster_assignment[last'.vertex] =
                                    last'.new_cluster]) ]_vars

\* C1 witness: a vertex was moved between two different clusters while it
\* had a neighbour in the cluster it left and a neighbour in the cluster it
\* joined.
C1_Witness ==
    /\ last.op = "move_vertex"
    /\ last.new_cluster # last.old_cluster
    /\ Consistent(bm)
    /\ \E i, j \in 1..Len(bm.graph[last.vertex]) :
          /\ bm.cluster_assignment[bm.graph[last.vertex][i]] = last.old_cluster
          /\ bm.cluster_assignment[bm.graph[last.vertex][j]] = last.new_cluster

\* C2: block-matrix symmetry.  After update_matrix on a complete assignment
\* and any number of move_vertex(v, b) calls with b in [0,K), B[r][s] =
\* B[s][r] for all r, s.
C2_Symmetry ==
    (pc = "ready" /\ AllAssigned(bm)) => Symmetric(bm)

\* C2 witness: a vertex was moved to another cluster and left a neighbour
\* behind, so B has edges between the two clusters.
C2_Witness ==
    /\ last.op = "move_vertex"
    /\ last.new_cluster # last.old_cluster
    /\ AllAssigned(bm)
    /\ bm.block_matrix[last.old_cluster][last.new_cluster] > 0

\* C5 as stated: whatever the caller has or has not written into
\* cluster_assignment, after update_matrix returns on a model with K >= 1
\* the sizes sum to N, B is symmetric and the entries of B sum to 2*E.
C5_AsStated ==
    (last.op = "update_matrix" /\ bm.cluster_count >= 1)
        => /\ SizesSum(bm) = get_vertex_count(bm.graph)
           /\ Symmetric(bm)
           /\ MatrixSum(bm) = 2 * get_edge_count(bm.graph)

\* C5 amended: after update_matrix returns on a model with K >= 1, B is
\* symmetric, the sizes sum to the number of vertices whose assignment lies
\* in [0,K) and the entries of B sum to the number of adjacency entries
\* between two such vertices; the sums are N and 2*E when every vertex has
\* been given a cluster in [0,K).
C5_UpdateMatrixPostcondition ==
    (last.op = "update_matrix" /\ bm.cluster_count >= 1)
        => /\ Symmetric(bm)
           /\ SizesSum(bm) = Cardinality(AssignedVertices(bm))
           /\ MatrixSum(bm) = Cardinality(AssignedHalfEdges(bm))
           /\ AllAssigned(bm) =>
                 /\ SizesSum(bm) = get_vertex_count(bm.graph)
                 /\ MatrixSum(bm) = 2 * get_edge_count(bm.graph)

\* C5 witness: update_matrix ran while a vertex with an edge to an assigned
\* vertex still held a value outside [0,K), and counted the other edges.
C5_Witness ==
    /\ last.op = "update_matrix"
    /\ bm.cluster_count >= 1
    /\ MatrixSum(bm) > 0
    /\ \E v \in DOMAIN bm.cluster_assignment :
          /\ ~InRange(bm, bm.cluster_assignment[v])
          /\ \E i \in 1..Len(bm.graph[v]) :
                InRange(bm, bm.cluster_assignment[bm.graph[v][i]])

-----------------------------------------------------------------------------
(* mcmc_refine(bm, McmcCap) called on an arbitrary consistent model; the  *)
(* states after fewer iterations are the intermediate states of the run   *)

Assignments(graph, K) == [DOMAIN graph -> 0..K-1]

InitMcmc ==
    /\ G \in SmallGraphs
    /\ \E K \in 1..MaxK :
       \E assignment \in Assignments(G, K) :
          bm = update_matrix(
                   [BlockModel(G, K) EXCEPT !.cluster_assignment = assignment])
    /\ algorithm = "mcmc_refine"
    /\ ret = "done"
    /\ iter = 0
    /\ num_iterations = IF bm.cluster_count <= 1 THEN 0 ELSE McmcCap
    /\ pc = IF num_iterations = 0 THEN "done" ELSE "mcmc"
    /\ round \in 0..MaxRound
    /\ h_start = Double(compute_H(bm), round)
    /\ target = 0
    /\ proposals_per_split = 0
    /\ forced_merge = FALSE
    /\ frame = NoFrame
    /\ explored = 0
    /\ commits = 0
    /\ last = Op("mcmc_refine", -1, -1, -1)
    /\ result = NoResult
    /\ par = NoPar

NextMcmc ==
    \/ McmcPropose
    \/ McmcDecide

SpecMcmc == InitMcmc /\ [][NextMcmc]_vars

-----------------------------------------------------------------------------
(* Comparing doubles that are equal as real numbers *)

(* S holds the scan positions of candidates whose exact values are equal.  *)
(* Their doubles may compare either way, so any of them may come first; up *)
(* to MaxTie clusters every resolution is explored, above it the first in  *)
(* scan order wins, which is what the strict < of the code and the         *)
(* insertion sort of std::sort do when the doubles are equal.              *)
tied(block_model, S) ==
    IF block_model.cluster_count <= MaxTie THEN S
    ELSE {CHOOSE x \in S : \A y \in S : x <= y}

-----------------------------------------------------------------------------
(* Top-down driver *)

(* Faulty variant: the members are listed from the highest vertex down *)
cluster_members_descending(block_model, cluster) ==
    LET members == SortedSeq({v \in DOMAIN block_model.cluster_assignment :
                                 block_model.cluster_assignment[v] = cluster})
    IN  [k \in 1..Len(members) |-> members[Len(members) + 1 - k]]

(* extract_subgraphs_parallel: cluster_members[cluster] *)
cluster_members(block_model, cluster) ==
    SortedSeq({v \in DOMAIN block_model.cluster_assignment :
                  block_model.cluster_assignment[v] = cluster})

global_to_local(subgraph_mapping, v_global) ==
    CHOOSE i \in 0..Len(subgraph_mapping)-1 : subgraph_mapping[i + 1] = v_global

(* extract_subgraphs_parallel: subgraphs[cluster] *)
extract_subgraph(block_model, cluster) ==
    LET mapping == cluster_members(block_model, cluster)
    IN  [subgraph_mapping |-> mapping,
         graph |->
            [i \in 0..Len(mapping)-1 |->
                LET inside ==
                        SelectSeq(block_model.graph[mapping[i + 1]],
                                  LAMBDA v_global :
                                      block_model.cluster_assignment[v_global]
                                          = cluster)
                IN  [k \in 1..Len(inside) |->
                        global_to_local(mapping, inside[k])]]]

(* Faulty variant: no coin flip, a vertex with a tied vote stays           *)
(* unassigned                                                              *)
snowball_vote_without_coin(graph, assignment, vertex) ==
    LET score0 == Cardinality({i \in 1..Len(graph[vertex]) :
                                  assignment[graph[vertex][i]] = 0})
        score1 == Cardinality({i \in 1..Len(graph[vertex]) :
                                  assignment[graph[vertex][i]] = 1})
    IN  IF score0 > score1 THEN {0}
        ELSE IF score1 > score0 THEN {1}
        ELSE {nullCluster}

(* Faulty variant: the vertex joins the cluster with fewer of its          *)
(* neighbours                                                              *)
snowball_vote_minority(graph, assignment, vertex) ==
    LET score0 == Cardinality({i \in 1..Len(graph[vertex]) :
                                  assignment[graph[vertex][i]] = 0})
        score1 == Cardinality({i \in 1..Len(graph[vertex]) :
                                  assignment[graph[vertex][i]] = 1})
    IN  IF score0 > score1 THEN {1}
        ELSE IF score1 > score0 THEN {0}
        ELSE {0, 1}

(* connectivity_snowball_split: the clusters the vote of the assigned      *)
(* neighbours allows for vertex (either one on a tie)                      *)
snowball_vote(graph, assignment, vertex) ==
    LET score0 == Cardinality({i \in 1..Len(graph[vertex]) :
                                  assignment[graph[vertex][i]] = 0})
        score1 == Cardinality({i \in 1..Len(graph[vertex]) :
                                  assignment[graph[vertex][i]] = 1})
    IN  IF score0 > score1 THEN {0}
        ELSE IF score1 > score0 THEN {1}
        ELSE {0, 1}

(* connectivity_snowball_split: the loop over the shuffled unassigned_vec; *)
(* the set of assignments it can end with                                   *)
RECURSIVE snowball_grow(_, _, _)
snowball_grow(graph, assignment, unassigned) ==
    IF unassigned = {} THEN {assignment}
    ELSE UNION {snowball_grow(graph,
                              [v \in DOMAIN assignment |->
                                  IF v = step[1] THEN step[2]
                                  ELSE assignment[v]],
                              unassigned \ {step[1]})
                : step \in {st \in unassigned \X {0, 1} :
                               st[2] \in snowball_vote(graph, assignment,
                                                       st[1])}}

(* connectivity_snowball_split: the assignments one trial can produce *)
snowball_trial(graph) ==
    UNION {snowball_grow(graph,
                         [v \in DOMAIN graph |->
                             IF v = seeds[1] THEN 0
                             ELSE IF v = seeds[2] THEN 1 ELSE nullCluster],
                         DOMAIN graph \ {seeds[1], seeds[2]})
           : seeds \in {p \in (DOMAIN graph) \X (DOMAIN graph) : p[1] # p[2]}}

(* connectivity_snowball_split: the models the call can return.  The trials *)
(* are independent, so all of them may produce the same assignment and any  *)
(* outcome of one trial can be the best of iteration_proposal trials.       *)
connectivity_snowball_split(subgraph, iteration_proposal) ==
    IF get_vertex_count(subgraph.graph) < binarySplitCount
    THEN {[BlockModel(subgraph.graph, minClusterCount) EXCEPT
              !.cluster_assignment = [v \in DOMAIN subgraph.graph |-> 0]]}
    ELSE IF iteration_proposal <= 0 THEN {DefaultBlockModel}
    ELSE {update_matrix([BlockModel(subgraph.graph, binarySplitCount) EXCEPT
                            !.cluster_assignment = assignment])
          : assignment \in snowball_trial(subgraph.graph)}

(* top_down_sbp: single_bm of a subgraph *)
single_bm(graph) ==
    update_matrix([BlockModel(graph, minClusterCount) EXCEPT
                      !.cluster_assignment = [v \in DOMAIN graph |-> 0]])

(* Faulty variant: every split is accepted *)
accepts_split_always(h_after, h_before) == h_after < inf

(* top_down_sbp: h_after < h_before + splitToleranceFactor * |h_before|,   *)
(* with splitToleranceFactor = 1/splitToleranceDivisor; inf is above every *)
(* h_before + tolerance                                                     *)
accepts_split(h_after, h_before) ==
    /\ h_after < inf
    /\ splitToleranceDivisor * (h_after - h_before) < Abs(h_before)

(* top_down_sbp: the candidates vectors the loop over the clusters i, i+1, *)
(* ... can build                                                           *)
RECURSIVE split_candidates(_, _, _)
split_candidates(block_model, iteration_proposal, i) ==
    IF i >= block_model.cluster_count THEN {<<>>}
    ELSE LET rest == split_candidates(block_model, iteration_proposal, i + 1)
             sub  == extract_subgraph(block_model, i)
         IN  IF get_vertex_count(sub.graph) < binarySplitCount THEN rest
             ELSE LET h_before == compute_H(single_bm(sub.graph))
                  IN  UNION {
                        LET h_after == compute_H(split)
                        IN  IF accepts_split(h_after, h_before)
                            THEN {<<[deltaH      |-> h_after - h_before,
                                     cluster_idx |-> i,
                                     split_bm    |-> split]>> \o tail
                                  : tail \in rest}
                            ELSE rest
                        : split \in connectivity_snowball_split(
                                        sub, iteration_proposal)}

(* top_down_sbp: std::ranges::min_element over the candidates *)
min_element(block_model, candidates) ==
    {candidates[k] :
        k \in tied(block_model,
                   {k \in 1..Len(candidates) :
                       \A j \in 1..Len(candidates) :
                           candidates[k].deltaH <= candidates[j].deltaH})}

(* top_down_sbp: the commit of the best split up to, and without, the     *)
(* final update_matrix                                                     *)
commit_split_stale(block_model, best) ==
    LET new_cluster_id == block_model.cluster_count
        sub == extract_subgraph(block_model, best.cluster_idx)
        K   == block_model.cluster_count + 1
    IN  [block_model EXCEPT
            !.cluster_count = K,
            !.block_matrix =
                [r \in 0..K-1 |-> [s \in 0..K-1 |->
                    IF r < new_cluster_id /\ s < new_cluster_id
                    THEN block_model.block_matrix[r][s] ELSE 0]],
            !.clusters_sizes =
                [r \in 0..K-1 |->
                    IF r < new_cluster_id THEN block_model.clusters_sizes[r]
                    ELSE 0],
            !.cluster_assignment =
                [v \in DOMAIN block_model.cluster_assignment |->
                    IF \E i \in 0..Len(sub.subgraph_mapping)-1 :
                          /\ sub.subgraph_mapping[i + 1] = v
                          /\ best.split_bm.cluster_assignment[i] = 1
                    THEN new_cluster_id
                    ELSE block_model.cluster_assignment[v]]]

(* Faulty variant: every vertex of the chosen cluster gets the new id *)
commit_split_whole_cluster(block_model, best) ==
    update_matrix(
        [commit_split_stale(block_model, best) EXCEPT
            !.cluster_assignment =
                [v \in DOMAIN block_model.cluster_assignment |->
                    IF block_model.cluster_assignment[v] = best.cluster_idx
                    THEN block_model.cluster_count
                    ELSE block_model.cluster_assignment[v]]])

(* top_down_sbp: the commit of the best split *)
commit_split(block_model, best) ==
    update_matrix(commit_split_stale(block_model, best))

(* Faulty variants: the loop runs once more; the loop ignores max_clusters *)
top_down_continues_once_more(block_model, max_clusters) ==
    block_model.cluster_count <= max_clusters

top_down_continues_unbounded(block_model, max_clusters) ==
    block_model.cluster_count >= minClusterCount

(* top_down_sbp: the loop condition *)
top_down_continues(block_model, max_clusters) ==
    block_model.cluster_count < max_clusters

(* the driver leaves the mcmc_refine variables at rest *)
no_mcmc(next_pc) ==
    /\ pc' = next_pc
    /\ iter' = 0
    /\ num_iterations' = 0
    /\ round' = 0
    /\ frame' = NoFrame
    /\ UNCHANGED <<ret, h_start, explored>>

(* top_down_sbp: the loop test and one iteration of the loop, up to the    *)
(* call of mcmc_refine                                                     *)
TopDownIteration ==
    /\ algorithm = "top_down"
    /\ pc = "td_loop"
    /\ IF ~top_down_continues(bm, target)
       THEN /\ no_mcmc("done")
            /\ last' = Op("td_return", -1, -1, -1)
            /\ UNCHANGED <<bm, commits, result>>
       ELSE \E candidates \in split_candidates(bm, proposals_per_split, 0) :
              IF candidates = <<>>
              THEN /\ no_mcmc("done")
                   /\ last' = Op("td_no_candidate", -1, -1, -1)
                   /\ UNCHANGED <<bm, commits, result>>
              ELSE \E best \in min_element(bm, candidates) :
                     /\ bm' = commit_split(bm, best)
                     /\ result' = [call   |-> "commit_split",
                                   first  |-> FirstAssignment,
                                   before |-> bm,
                                   best   |-> best]
                     /\ commits' = commits + 1
                     /\ last' = Op("td_commit", -1, best.cluster_idx,
                                   bm.cluster_count)
                     /\ mcmc_refine_enter(
                            bm',
                            mcmcRefinementMultiplier
                                * get_vertex_count(bm.graph),
                            "td_loop")
    /\ UNCHANGED <<G, algorithm, target, proposals_per_split, forced_merge>>
    /\ UNCHANGED par

-----------------------------------------------------------------------------
(* Bottom-up driver *)

(* compute_delta_H_merge: B * log(B / (n_a * n_b)), zero when B = 0 *)
merge_term(B, n_a, n_b) ==
    IF B > 0 THEN B * (Ln[B] - Ln[n_a] - Ln[n_b]) ELSE 0

(* compute_delta_H_merge: step 1, the terms of c1 and c2 for the cluster k *)
removed_terms(block_model, c1, c2, k) ==
    LET B  == block_model.block_matrix
        n1 == block_model.clusters_sizes[c1]
        n2 == block_model.clusters_sizes[c2]
        nk == block_model.clusters_sizes[k]
    IN  IF nk = 0 THEN 0
        ELSE merge_term(B[c1][k], n1, nk)
             + (IF k # c1 THEN merge_term(B[k][c1], nk, n1) ELSE 0)
             + merge_term(B[c2][k], n2, nk)
             + (IF k # c2 THEN merge_term(B[k][c2], nk, n2) ELSE 0)

(* compute_delta_H_merge: step 2, the terms of the merged cluster for k *)
added_terms(block_model, c1, c2, k) ==
    LET B  == block_model.block_matrix
        n_merged == block_model.clusters_sizes[c1]
                    + block_model.clusters_sizes[c2]
        nk == block_model.clusters_sizes[k]
    IN  IF nk = 0 \/ k = c1 \/ k = c2 THEN 0
        ELSE merge_term(B[c1][k] + B[c2][k], n_merged, nk)
             + merge_term(B[k][c1] + B[k][c2], nk, n_merged)

RECURSIVE delta_entropy_loop(_, _, _, _)
delta_entropy_loop(block_model, c1, c2, k) ==
    IF k >= block_model.cluster_count THEN 0
    ELSE - removed_terms(block_model, c1, c2, k)
         + added_terms(block_model, c1, c2, k)
         + delta_entropy_loop(block_model, c1, c2, k + 1)

(* compute_delta_H_merge: steps 1 to 4, for two distinct non-empty clusters *)
merge_delta(block_model, c1, c2) ==
    LET B == block_model.block_matrix
        K == block_model.cluster_count
        n_merged == block_model.clusters_sizes[c1]
                    + block_model.clusters_sizes[c2]
        B_self == B[c1][c1] + B[c2][c2] + B[c1][c2] + B[c2][c1]
        delta_entropy ==
            delta_entropy_loop(block_model, c1, c2, 0)
            + merge_term(B_self, n_merged, n_merged)
        delta_complexity ==
            (((K - 1) * K) \div 2 - (K * (K + 1)) \div 2)
                * Ln[get_vertex_count(block_model.graph)]
    IN  - delta_entropy + delta_complexity

(* Faulty variant: the empty-cluster test comes before the c1 = c2 test *)
compute_delta_H_merge_sizes_first(block_model, c1, c2) ==
    IF c1 < 0 \/ c2 < 0
       \/ c1 >= block_model.cluster_count \/ c2 >= block_model.cluster_count
    THEN inf
    ELSE IF block_model.clusters_sizes[c1] = 0
            \/ block_model.clusters_sizes[c2] = 0
    THEN inf
    ELSE IF c1 = c2 THEN 0
    ELSE merge_delta(block_model, c1, c2)

(* compute_delta_H_merge; the model always has a graph *)
compute_delta_H_merge(block_model, c1, c2) ==
    IF c1 < 0 \/ c2 < 0
       \/ c1 >= block_model.cluster_count \/ c2 >= block_model.cluster_count
    THEN inf
    ELSE IF c1 = c2 THEN 0
    ELSE IF block_model.clusters_sizes[c1] = 0
            \/ block_model.clusters_sizes[c2] = 0
    THEN inf
    ELSE merge_delta(block_model, c1, c2)

(* bottom_up_sbp: the clusters c_prime the inner loop of the gather does   *)
(* not skip for the cluster c                                              *)
merge_partners(block_model, c) ==
    {c_prime \in 0..block_model.cluster_count-1 :
        /\ c_prime # c
        /\ block_model.clusters_sizes[c_prime] # 0
        /\ ~(block_model.block_matrix[c][c_prime] = 0
             /\ block_model.block_matrix[c_prime][c] = 0)}

(* bottom_up_sbp: one iteration of the scan, for cluster c: the proposals  *)
(* it can push, as a sequence of length 0 or 1                             *)
cluster_proposal(block_model, c) ==
    LET partners == merge_partners(block_model, c)
        deltaH   == [c_prime \in partners |->
                        compute_delta_H_merge(block_model, c, c_prime)]
        best     == {c_prime \in partners :
                        \A x \in partners : deltaH[c_prime] <= deltaH[x]}
    IN  IF block_model.clusters_sizes[c] = 0 \/ partners = {} THEN {<<>>}
        ELSE {IF deltaH[best_merge_partner] < 0
              THEN <<[c1 |-> c, c2 |-> best_merge_partner,
                      deltaH |-> deltaH[best_merge_partner]]>>
              ELSE <<>>
              : best_merge_partner \in tied(block_model, best)}

(* bottom_up_sbp: the proposals vectors the gather over the clusters c,    *)
(* c+1, ... can build                                                      *)
RECURSIVE gather_proposals(_, _)
gather_proposals(block_model, c) ==
    IF c >= block_model.cluster_count THEN {<<>>}
    ELSE {pushed \o tail :
             pushed \in cluster_proposal(block_model, c),
             tail \in gather_proposals(block_model, c + 1)}

(* bottom_up_sbp: the forced merge, the least-bad pair c1 < c2 of          *)
(* non-empty clusters (scan position c1 * K + c2)                          *)
forced_merge_proposals(block_model) ==
    LET K      == block_model.cluster_count
        pairs  == {q \in 0..K*K-1 :
                      /\ q \div K < q % K
                      /\ block_model.clusters_sizes[q \div K] # 0
                      /\ block_model.clusters_sizes[q % K] # 0}
        deltaH == [q \in pairs |->
                      compute_delta_H_merge(block_model, q \div K, q % K)]
        best   == {q \in pairs : \A x \in pairs : deltaH[q] <= deltaH[x]}
    IN  IF pairs = {} THEN {<<>>}
        ELSE {<<[c1 |-> q \div K, c2 |-> q % K, deltaH |-> deltaH[q]]>>
              : q \in tied(block_model, best)}

(* Faulty variant: the forced merge is never added *)
find_proposals_without_forced(block_model) ==
    {[proposals |-> gathered, forced_merge |-> FALSE]
     : gathered \in gather_proposals(block_model, 0)}

(* bottom_up_sbp: proposals and forced_merge before the sort *)
find_proposals(block_model) ==
    UNION {IF gathered = <<>>
           THEN {[proposals |-> forced, forced_merge |-> forced # <<>>]
                 : forced \in forced_merge_proposals(block_model)}
           ELSE {[proposals |-> gathered, forced_merge |-> FALSE]}
           : gathered \in gather_proposals(block_model, 0)}

(* Faulty variant: the batch is not capped by the clusters to remove *)
max_merges_uncapped(block_model, target_clusters) ==
    block_model.cluster_count \div mergeBatchSizeDivisor

(* bottom_up_sbp: max_merges; mergeBatchSizeFactor = 1/mergeBatchSizeDivisor *)
max_merges(block_model, target_clusters) ==
    Min(block_model.cluster_count \div mergeBatchSizeDivisor,
        block_model.cluster_count - target_clusters)

(* Faulty variant: a proposal is taken even when one of its clusters is    *)
(* already in a merge of the batch                                         *)
RECURSIVE independent_merges_overlapping(_, _, _, _)
independent_merges_overlapping(block_model, proposals, limit, taken) ==
    LET free  == {k \in 1..Len(proposals) :
                     \A j \in 1..Len(taken) : taken[j] # proposals[k]}
        first == {k \in free : \A j \in free :
                     proposals[k].deltaH <= proposals[j].deltaH}
    IN  IF free = {} THEN {taken}
        ELSE UNION {
               IF Len(taken) + 1 >= limit
               THEN {Append(taken, proposals[k])}
               ELSE independent_merges_overlapping(
                        block_model, proposals, limit,
                        Append(taken, proposals[k]))
               : k \in tied(block_model, first)}

(* bottom_up_sbp: std::sort by deltaH and the selection of independent     *)
(* merges: the next merge taken is the first proposal, in sorted order,    *)
(* that shares no cluster with the merges already taken                    *)
RECURSIVE independent_merges(_, _, _, _)
independent_merges(block_model, proposals, limit, taken) ==
    LET used_clusters == {taken[k].c1 : k \in 1..Len(taken)}
                         \cup {taken[k].c2 : k \in 1..Len(taken)}
        free  == {k \in 1..Len(proposals) :
                     /\ proposals[k].c1 \notin used_clusters
                     /\ proposals[k].c2 \notin used_clusters}
        first == {k \in free : \A j \in free :
                     proposals[k].deltaH <= proposals[j].deltaH}
    IN  IF free = {} THEN {taken}
        ELSE UNION {
               IF Len(taken) + 1 >= limit
               THEN {Append(taken, proposals[k])}
               ELSE independent_merges(block_model, proposals, limit,
                                       Append(taken, proposals[k]))
               : k \in tied(block_model, first)}

(* bottom_up_sbp: the merges applied to cluster_assignment, in order *)
RECURSIVE apply_merges(_, _, _)
apply_merges(assignment, merges, k) ==
    IF k > Len(merges) THEN assignment
    ELSE apply_merges([v \in DOMAIN assignment |->
                          IF assignment[v] = merges[k].c2 THEN merges[k].c1
                          ELSE assignment[v]],
                      merges, k + 1)

(* Faulty variant: the gaps are kept, clusters are not renumbered *)
renumber_keep_gaps(block_model, assignment) ==
    update_matrix([block_model EXCEPT !.cluster_assignment = assignment])

(* bottom_up_sbp: renumbering to eliminate gaps, then update_matrix *)
renumber(block_model, assignment) ==
    LET used == {c \in 0..block_model.cluster_count-1 :
                    \E v \in DOMAIN assignment : assignment[v] = c}
        old_to_new == [c \in 0..block_model.cluster_count-1 |->
                          IF c \in used
                          THEN Cardinality({u \in used : u < c})
                          ELSE nullCluster]
        current_idx == Cardinality(used)
    IN  update_matrix(
            [BlockModel(block_model.graph, current_idx) EXCEPT
                !.cluster_assignment =
                    [v \in DOMAIN assignment |-> old_to_new[assignment[v]]]])

(* bottom_up_sbp: base_iters of the adaptive refinement *)
base_iters(block_model, target_clusters, forced) ==
    IF block_model.cluster_count <= target_clusters + 2
    THEN Min(maxBottomUpMcmcIters,
             forcedMergeMcmcMultiplier * block_model.cluster_count * 2)
    ELSE IF forced
    THEN Min(maxBottomUpMcmcIters,
             forcedMergeMcmcMultiplier * block_model.cluster_count)
    ELSE Min(maxBottomUpMcmcIters,
             bottomUpMcmcMultiplier * block_model.cluster_count)

(* bottom_up_sbp: the loop test and one iteration of the loop up to the    *)
(* call of mcmc_refine; once the loop is left, the final refinement.  The  *)
(* two tests that end an iteration (== and < target_clusters) leave the    *)
(* loop exactly when the loop test does.                                   *)
BottomUpIteration ==
    /\ algorithm = "bottom_up"
    /\ pc = "bu_loop"
    /\ IF bm.cluster_count > target
       THEN \E found \in find_proposals(bm) :
              IF found.proposals = <<>>
              THEN /\ no_mcmc("done")
                   /\ last' = Op("bu_no_proposal", -1, -1, -1)
                   /\ UNCHANGED <<bm, commits, forced_merge, result>>
              ELSE \E merges \in independent_merges(
                                    bm, found.proposals,
                                    max_merges(bm, target), <<>>) :
                     /\ bm' = renumber(bm, apply_merges(
                                           bm.cluster_assignment, merges, 1))
                     /\ forced_merge' = found.forced_merge
                     /\ commits' = commits + Len(merges)
                     /\ result' = [call      |-> "independent_merges",
                                   first     |-> FirstAssignment,
                                   before    |-> bm,
                                   proposals |-> found.proposals,
                                   merges    |-> merges]
                     /\ last' = Op("bu_commit", -1, bm.cluster_count,
                                   bm'.cluster_count)
                     /\ IF bm'.cluster_count
                              <= get_vertex_count(G) \div mcmcThresholdDivisor
                        THEN mcmc_refine_enter(
                                 bm',
                                 base_iters(bm', target, found.forced_merge),
                                 "bu_loop")
                        ELSE no_mcmc("bu_loop")
       ELSE /\ last' = Op("bu_final", -1, -1, -1)
            /\ UNCHANGED <<bm, commits, forced_merge, result>>
            /\ IF bm.cluster_count = target
               THEN mcmc_refine_enter(
                        bm,
                        Min(maxBottomUpMcmcIters,
                            forcedMergeMcmcMultiplier * bm.cluster_count),
                        "done")
               ELSE no_mcmc("done")
    /\ UNCHANGED <<G, algorithm, target, proposals_per_split>>
    /\ UNCHANGED par

-----------------------------------------------------------------------------
(* The two drivers, called on the input graphs *)

(* the star: vertex 0 joined to each of the other N - 1 vertices *)
Star(N) == MakeGraph(N, {p \in VertexPairs(N) : p[1] = 0})

Drivers(Inputs) ==
    /\ algorithm \in {"top_down", "bottom_up"}
    /\ G \in Inputs
    /\ target \in 1..MaxTarget
    /\ proposals_per_split \in IF algorithm = "top_down" THEN 0..MaxP ELSE {0}
    /\ bm = IF algorithm = "top_down"
            THEN update_matrix(
                     [BlockModel(G, minClusterCount) EXCEPT
                         !.cluster_assignment = [v \in DOMAIN G |-> 0]])
            ELSE update_matrix(
                     [BlockModel(G, get_vertex_count(G)) EXCEPT
                         !.cluster_assignment = [v \in DOMAIN G |-> v]])
    /\ pc = IF algorithm = "top_down" THEN "td_loop" ELSE "bu_loop"
    /\ ret = "done"
    /\ iter = 0
    /\ num_iterations = 0
    /\ round = 0
    /\ h_start = Double(0, 0)
    /\ forced_merge = FALSE
    /\ frame = NoFrame
    /\ explored = 0
    /\ commits = 0
    /\ last = Op("call", -1, -1, -1)
    /\ result = NoResult
    /\ par = NoPar

InitEngine == Drivers(SmallGraphs)

NextEngine ==
    \/ TopDownIteration
    \/ BottomUpIteration
    \/ McmcPropose
    \/ McmcDecide

(* top_down_sbp is sequential code: a call that stands at the loop test   *)
(* executes it.  This is WF_vars(TopDownIteration) written out, with      *)
(* ENABLED <<TopDownIteration>>_vars replaced by the guard of the action: *)
(* the loop body has a successor in every state of the guard, and each of *)
(* its branches changes pc or commits.                                    *)
TopDownFair ==
    \/ []<>(~(algorithm = "top_down" /\ pc = "td_loop"))
    \/ []<><<TopDownIteration>>_vars

(* a call that has not returned keeps running *)
SpecEngine ==
    /\ InitEngine
    /\ [][NextEngine]_vars
    /\ WF_vars(BottomUpIteration)
    /\ WF_vars(McmcPropose)
    /\ WF_vars(McmcDecide)
    /\ TopDownFair

(* bottom_up_sbp called on the star *)
InitStar ==
    /\ Drivers({Star(StarN)})
    /\ algorithm = "bottom_up"

NextStar ==
    \/ BottomUpIteration
    \/ McmcPropose
    \/ McmcDecide

SpecStar ==
    /\ InitStar
    /\ [][NextStar]_vars
    /\ WF_vars(BottomUpIteration)
    /\ WF_vars(McmcPropose)
    /\ WF_vars(McmcDecide)

-----------------------------------------------------------------------------
(* Properties of the drivers *)

NonEmptyClusters(block_model) ==
    {c \in 0..block_model.cluster_count-1 : block_model.clusters_sizes[c] # 0}

\* C3: edge-count conservation.  In every state of a driver run (after the
\* first update_matrix, after every move_vertex of mcmc_refine, after a split
\* commit and after a merge-and-renumber commit) the entries of B sum to 2*E.
C3_EdgeCountConservation ==
    algorithm \in {"top_down", "bottom_up"}
        => MatrixSum(bm) = 2 * get_edge_count(G)

\* C3 witness: top_down_sbp has just committed a split that cut edges of the
\* graph: the new block has edges to the block it was split from.
C3_Witness ==
    /\ algorithm = "top_down"
    /\ last.op = "td_commit"
    /\ bm.block_matrix[last.old_cluster][last.new_cluster] > 0

\* C4: partition conservation.  In every state of a driver run the block
\* sizes sum to N and clusters_sizes[r] is the number of vertices assigned
\* to r.
C4_PartitionConservation ==
    algorithm \in {"top_down", "bottom_up"}
        => /\ SizesSum(bm) = get_vertex_count(G)
           /\ \A r \in 0..bm.cluster_count-1 :
                 bm.clusters_sizes[r] = Cardinality(Members(bm, r))

\* C4 witness: bottom_up_sbp has merged clusters and renumbered, and
\* mcmc_refine has then moved a vertex.
C4_Witness ==
    /\ algorithm = "bottom_up"
    /\ commits >= 1
    /\ bm.cluster_count < get_vertex_count(G)
    /\ pc = "mcmc_moved"

\* C7: top-down K bound.  In every state of top_down_sbp(G, K*, P), the
\* returned one included, 1 <= K <= K*, and no step raises K by more than
\* one.
C7_TopDownBound ==
    /\ [](algorithm = "top_down"
            => minClusterCount <= bm.cluster_count /\ bm.cluster_count <= target)
    /\ [][algorithm = "top_down"
            => bm'.cluster_count <= bm.cluster_count + 1]_vars

\* C7 witness: top_down_sbp returned after it split up to K = K*.
C7_Witness ==
    /\ algorithm = "top_down"
    /\ pc = "done"
    /\ commits >= 1
    /\ last.op = "td_return"
    /\ bm.cluster_count = target

\* C10: top-down termination.  top_down_sbp returns; it commits at most
\* K* - 1 splits; and when it has returned either K = K* or the last
\* iteration could build no candidate: no block of two or more vertices had
\* a split that passed the acceptance rule.
C10_TopDownTermination ==
    /\ (algorithm = "top_down") ~> (pc = "done")
    /\ [](algorithm = "top_down" => commits <= target - 1)
    /\ []((algorithm = "top_down" /\ pc = "done")
            => \/ bm.cluster_count = target
               \/ /\ last.op = "td_no_candidate"
                  /\ <<>> \in split_candidates(bm, proposals_per_split, 0))

\* C10 witness: top_down_sbp committed a split and returned below K*
\* because the next iteration accepted no split.
C10_Witness ==
    /\ algorithm = "top_down"
    /\ pc = "done"
    /\ commits >= 1
    /\ bm.cluster_count < target
    /\ last.op = "td_no_candidate"

-----------------------------------------------------------------------------
(* compute_delta_H_merge called directly on a consistent model: the caller *)
(* passes any two cluster ids, valid or not                                *)

InitMerge ==
    /\ G \in SmallGraphs
    /\ \E K \in 1..MaxK :
       \E assignment \in Assignments(G, K) :
          bm = update_matrix(
                   [BlockModel(G, K) EXCEPT !.cluster_assignment = assignment])
    /\ algorithm = "compute_delta_H_merge"
    /\ pc = "ready"
    /\ ret = "ready"
    /\ target = 0
    /\ proposals_per_split = 0
    /\ iter = 0
    /\ num_iterations = 0
    /\ round = 0
    /\ h_start = Double(0, 0)
    /\ forced_merge = FALSE
    /\ frame = NoFrame
    /\ explored = 0
    /\ commits = 0
    /\ last = Op("call", -1, -1, -1)
    /\ result = NoResult
    /\ par = NoPar

(* the model is passed by const reference *)
DeltaHMerge ==
    /\ algorithm = "compute_delta_H_merge"
    /\ \E c1, c2 \in -1..bm.cluster_count :
          /\ result' = [call  |-> "compute_delta_H_merge",
                        c1    |-> c1,
                        c2    |-> c2,
                        value |-> compute_delta_H_merge(bm, c1, c2)]
          /\ last' = Op("compute_delta_H_merge", -1, c1, c2)
    /\ UNCHANGED <<G, bm, algorithm, pc, ret, target, proposals_per_split,
                   iter, num_iterations, round, h_start, forced_merge, frame,
                   explored, commits, par>>

NextMerge == DeltaHMerge

SpecMerge == InitMerge /\ [][NextMerge]_vars

(* the model after merging c2 into c1 and renumbering to K - 1 clusters *)
MergedModel(block_model, c1, c2) ==
    update_matrix(
        [BlockModel(block_model.graph, block_model.cluster_count - 1) EXCEPT
            !.cluster_assignment =
                [v \in DOMAIN block_model.cluster_assignment |->
                    LET c == IF block_model.cluster_assignment[v] = c2
                             THEN c1 ELSE block_model.cluster_assignment[v]
                    IN  IF c > c2 THEN c - 1 ELSE c]])

\* C11 as stated: for a consistent model with K >= 2 and two distinct
\* non-empty blocks c1, c2, compute_delta_H_merge(bm, c1, c2) is
\* compute_H(model after the merge) - compute_H(bm).  One unit of the
\* fixed-point values is 10^-6, and a description length of these models
\* is below 10^3, so a relative tolerance of 10^-9 is less than one unit:
\* the two sides agree within the tolerance iff they are equal here.
C11_AsStated ==
    (/\ result.call = "compute_delta_H_merge"
     /\ bm.cluster_count >= 2
     /\ InRange(bm, result.c1) /\ InRange(bm, result.c2)
     /\ result.c1 # result.c2
     /\ bm.clusters_sizes[result.c1] > 0
     /\ bm.clusters_sizes[result.c2] > 0)
        => result.value
              = compute_H(MergedModel(bm, result.c1, result.c2))
                - compute_H(bm)

\* C12 as stated: the result is the +infinity sentinel whenever c1 or c2 is
\* outside [0,K) or either block is empty, and it is 0 when c1 = c2.
C12_AsStated ==
    result.call = "compute_delta_H_merge" =>
        LET invalid ==
                \/ ~InRange(bm, result.c1)
                \/ ~InRange(bm, result.c2)
                \/ bm.clusters_sizes[result.c1] = 0
                \/ bm.clusters_sizes[result.c2] = 0
        IN  /\ invalid => result.value = inf
            /\ result.c1 = result.c2 => result.value = 0

C12_Returned ==
    result.call = "compute_delta_H_merge" =>
        LET c1 == result.c1
            c2 == result.c2
        IN  IF ~InRange(bm, c1) \/ ~InRange(bm, c2)
            THEN result.value = inf
            ELSE IF c1 = c2
            THEN result.value = 0
            ELSE (result.value = inf)
                    <=> (bm.clusters_sizes[c1] = 0 \/ bm.clusters_sizes[c2] = 0)

\* C12, amended: compute_delta_H_merge tests its arguments in this order.
\* If c1 or c2 is outside [0,K) the result is the +infinity sentinel, also
\* when c1 = c2.  Otherwise, if c1 = c2 the result is 0, also when that
\* block is empty.  Otherwise the result is the sentinel iff one of the two
\* blocks is empty.  The call always returns and leaves bm as it was.
C12_Sentinels == [](C12_Returned) /\ [][bm' = bm]_vars

C12_Witness ==
    /\ result.call = "compute_delta_H_merge"
    /\ InRange(bm, result.c1)
    /\ result.c1 = result.c2
    /\ bm.clusters_sizes[result.c1] = 0
    /\ result.value = 0

-----------------------------------------------------------------------------
(* mcmc_refine, parallel version: every thread refines a private copy of   *)
(* the model and the best copy is adopted after the region.  par holds the *)
(* shared best_H and best_assignment and, per thread, local_BM, the        *)
(* iterations of the omp for loop it still has to run, the rounding rank   *)
(* of the compute_H of its local_BM, and where the thread is.              *)

(* the ways the omp for loop can hand its iterations to the team *)
Shares(team, count) ==
    {share \in [1..team -> 0..count] :
        SumOver(share, 1..team) = count}

InitParallel ==
    /\ G \in SmallGraphs
    /\ \E K \in 1..MaxK :
       \E assignment \in Assignments(G, K) :
          bm = update_matrix(
                   [BlockModel(G, K) EXCEPT !.cluster_assignment = assignment])
    /\ algorithm = "mcmc_refine_parallel"
    /\ pc = "ready"
    /\ ret = "done"
    /\ iter = 0
    /\ num_iterations = McmcCap
    /\ round \in 0..MaxRound
    /\ h_start = Double(compute_H(bm), round)
    /\ target = 0
    /\ proposals_per_split = 0
    /\ forced_merge = FALSE
    /\ frame = NoFrame
    /\ explored = 0
    /\ commits = 0
    /\ last = Op("mcmc_refine", -1, -1, -1)
    /\ result = NoResult
    /\ par = NoPar

(* mcmc_refine: from entry to the point where every thread has its copy *)
ParallelEnter ==
    /\ algorithm = "mcmc_refine_parallel"
    /\ pc = "ready"
    /\ IF bm.cluster_count <= 1
       THEN /\ pc' = "done"
            /\ par' = NoPar
            /\ last' = Op("mcmc_return", -1, -1, -1)
       ELSE /\ pc' = "parallel"
            /\ last' = Op("mcmc_fork", -1, -1, -1)
            /\ \E team \in 1..MaxWorkers :
               \E share \in Shares(team, num_iterations) :
                  par' = [region          |-> "mcmc_refine",
                          best_H          |-> Double(compute_H(bm), round),
                          best_assignment |-> bm.cluster_assignment,
                          initial         |-> bm.cluster_assignment,
                          workers |->
                              [w \in 1..team |->
                                  [local_BM |-> bm,
                                   todo     |-> share[w],
                                   rank     |-> round,
                                   at       |-> "for"]]]
    /\ UNCHANGED <<G, bm, algorithm, ret, target, proposals_per_split, iter,
                   num_iterations, round, h_start, forced_merge, frame,
                   explored, commits, result>>

(* mcmc_refine: one iteration of the omp for loop, run by one thread on    *)
(* its local_BM                                                            *)
ParallelIteration ==
    /\ pc = "parallel"
    /\ par.region = "mcmc_refine"
    /\ \E w \in DOMAIN par.workers :
          LET worker   == par.workers[w]
              local_BM == worker.local_BM
          IN  /\ worker.at = "for"
              /\ worker.todo > 0
              /\ \E v \in 0..get_vertex_count(local_BM.graph)-1 :
                 \E new_cluster \in mcmc_proposal(local_BM.graph, local_BM, v) :
                 \E rank \in 0..MaxRound :
                    LET old_cluster == local_BM.cluster_assignment[v]
                        moved    == move_vertex(local_BM, v, new_cluster)
                        h_before == Double(compute_H(local_BM), worker.rank)
                        h_after  == Double(compute_H(moved), rank)
                    IN  /\ new_cluster = old_cluster => rank = worker.rank
                        /\ par' = [par EXCEPT !.workers[w] =
                              IF new_cluster = old_cluster
                              THEN [worker EXCEPT !.todo = @ - 1]
                              ELSE IF mcmc_reject(h_after, h_before)
                              THEN [worker EXCEPT
                                       !.todo = @ - 1,
                                       !.local_BM =
                                           move_vertex(moved, v, old_cluster)]
                              ELSE [worker EXCEPT
                                       !.todo = @ - 1,
                                       !.local_BM = moved,
                                       !.rank = rank]]
                        /\ last' = Op("mcmc_local", v, old_cluster, new_cluster)
    /\ UNCHANGED <<G, bm, algorithm, pc, ret, target, proposals_per_split,
                   iter, num_iterations, round, h_start, forced_merge, frame,
                   explored, commits, result>>

(* Faulty variant: the thread that enters the critical section last wins *)
par_adopts_always(local_H, best_H) == TRUE

(* mcmc_refine: the test in the critical section *)
par_adopts(local_H, best_H) == DoubleLess(local_H, best_H)

(* mcmc_refine: a thread that has finished its iterations computes local_H *)
(* and goes through the critical section                                   *)
ParallelCritical ==
    /\ pc = "parallel"
    /\ par.region = "mcmc_refine"
    /\ \E w \in DOMAIN par.workers :
          LET worker  == par.workers[w]
              local_H == Double(compute_H(worker.local_BM), worker.rank)
          IN  /\ worker.at = "for"
              /\ worker.todo = 0
              /\ par' = IF par_adopts(local_H, par.best_H)
                        THEN [par EXCEPT
                                 !.best_H = local_H,
                                 !.best_assignment =
                                     worker.local_BM.cluster_assignment,
                                 !.workers[w].at = "end"]
                        ELSE [par EXCEPT !.workers[w].at = "end"]
              /\ last' = Op("mcmc_critical", w, -1, -1)
    /\ UNCHANGED <<G, bm, algorithm, pc, ret, target, proposals_per_split,
                   iter, num_iterations, round, h_start, forced_merge, frame,
                   explored, commits, result>>

(* mcmc_refine: after the region, the best assignment is applied *)
ParallelJoin ==
    /\ pc = "parallel"
    /\ par.region = "mcmc_refine"
    /\ \A w \in DOMAIN par.workers : par.workers[w].at = "end"
    /\ bm' = update_matrix(
                 [bm EXCEPT !.cluster_assignment = par.best_assignment])
    /\ par' = [par EXCEPT !.region = "joined"]
    /\ pc' = "done"
    /\ last' = Op("mcmc_join", -1, -1, -1)
    /\ UNCHANGED <<G, algorithm, ret, target, proposals_per_split, iter,
                   num_iterations, round, h_start, forced_merge, frame,
                   explored, commits, result>>

NextParallel ==
    \/ ParallelEnter
    \/ ParallelIteration
    \/ ParallelCritical
    \/ ParallelJoin

SpecParallel == InitParallel /\ [][NextParallel]_vars

(* the final description length of a thread's local model *)
LocalH(w) ==
    Double(compute_H(par.workers[w].local_BM), par.workers[w].rank)

Improved == {w \in DOMAIN par.workers : DoubleLess(LocalH(w), h_start)}

\* C13: when parallel mcmc_refine returns, whatever the shares of the
\* iterations and the order of the critical sections were: if no thread's
\* local model has a description length below that of bm at the call, bm
\* has its original assignment; otherwise bm has the assignment of a thread
\* whose final description length is the minimum over all threads.  The
\* description length of bm is not above the one at the call, and the block
\* matrix and the sizes are those update_matrix computes from the adopted
\* assignment.
C13_ParallelReduction ==
    (pc = "done" /\ par.region = "joined") =>
        /\ IF Improved = {}
           THEN bm.cluster_assignment = par.initial
           ELSE \E w \in Improved :
                   /\ \A v \in DOMAIN par.workers :
                          ~DoubleLess(LocalH(v), LocalH(w))
                   /\ bm.cluster_assignment
                          = par.workers[w].local_BM.cluster_assignment
        /\ compute_H(bm) = par.best_H.x
        /\ ~DoubleLess(h_start, par.best_H)
        /\ Consistent(bm)

\* C13 witness: two threads both improved on the model, with different
\* description lengths, and the better one was adopted.
C13_Witness ==
    /\ pc = "done"
    /\ par.region = "joined"
    /\ DOMAIN par.workers = 1..2
    /\ Improved = 1..2
    /\ LocalH(1).x # LocalH(2).x
    /\ bm.cluster_assignment # par.initial

-----------------------------------------------------------------------------
(* The parallel regions, thread by thread.  A step of a thread is one      *)
(* atomic increment, one critical section, or one loop iteration that      *)
(* touches only what the thread owns.                                      *)

(* update_matrix: the two fills before the parallel for *)
update_matrix_fill(block_model) ==
    [block_model EXCEPT
        !.block_matrix   = [r \in 0..block_model.cluster_count-1 |->
                               [c \in 0..block_model.cluster_count-1 |-> 0]],
        !.clusters_sizes = [r \in 0..block_model.cluster_count-1 |-> 0]]

(* Faulty variant: the increment counts the edge twice *)
atomic_increment_twice(counters, index) ==
    [counters EXCEPT ![index] = @ + 2]

(* update_matrix: #pragma omp atomic ++counters[index] *)
atomic_increment(counters, index) ==
    [counters EXCEPT ![index] = @ + 1]

(* par.writers: the threads that have written the master model so far *)

(* a thread of the parallel for that holds no chunk *)
Idle == [vertex_u |-> -1, chunk_end |-> -1, i |-> 1]

(* update_matrix: the thread moves on to the next vertex of its chunk *)
next_vertex(worker) ==
    IF worker.vertex_u + 1 < worker.chunk_end
    THEN [worker EXCEPT !.vertex_u = @ + 1, !.i = 1]
    ELSE Idle

InitRegions ==
    /\ algorithm \in {"update_matrix", "merge_scan", "mcmc_refine_parallel"}
    /\ G \in SmallGraphs
    /\ \E K \in 1..MaxK :
       \E assignment \in Assignments(G, K) :
          bm = IF algorithm = "update_matrix"
               THEN [BlockModel(G, K) EXCEPT !.cluster_assignment = assignment]
               ELSE update_matrix(
                        [BlockModel(G, K) EXCEPT
                            !.cluster_assignment = assignment])
    /\ pc = "ready"
    /\ ret = "done"
    /\ iter = 0
    /\ num_iterations = IF algorithm = "mcmc_refine_parallel" THEN McmcCap ELSE 0
    /\ round \in IF algorithm = "mcmc_refine_parallel" THEN 0..MaxRound ELSE {0}
    /\ h_start = Double(compute_H(bm), round)
    /\ target = 0
    /\ proposals_per_split = 0
    /\ forced_merge = FALSE
    /\ frame = NoFrame
    /\ explored = 0
    /\ commits = 0
    /\ last = Op("call", -1, -1, -1)
    /\ result = NoResult
    /\ par = NoPar

(* update_matrix: entry, the fills, and the team of the parallel for *)
UpdateMatrixEnter ==
    /\ algorithm = "update_matrix"
    /\ pc = "ready"
    /\ bm' = update_matrix_fill(bm)
    /\ \E team \in 1..MaxWorkers :
          par' = [region  |-> "update_matrix",
                  entry   |-> bm,
                  next    |-> 0,
                  writers |-> {},
                  workers |-> [w \in 1..team |-> Idle]]
    /\ pc' = "parallel"
    /\ last' = Op("update_matrix_fork", -1, -1, -1)
    /\ UNCHANGED <<G, algorithm, ret, target, proposals_per_split, iter,
                   num_iterations, round, h_start, forced_merge, frame,
                   explored, commits, result>>

(* update_matrix: schedule(dynamic, OMP_CHUNK_SIZE), an idle thread is     *)
(* handed the next chunk of vertices                                       *)
UpdateMatrixChunk ==
    /\ pc = "parallel"
    /\ par.region = "update_matrix"
    /\ par.next < Cardinality(DOMAIN bm.cluster_assignment)
    /\ \E w \in DOMAIN par.workers :
          /\ par.workers[w] = Idle
          /\ par' = [par EXCEPT
                        !.next = @ + ChunkSize,
                        !.workers[w] =
                            [vertex_u  |-> par.next,
                             chunk_end |-> Min(par.next + ChunkSize,
                                 Cardinality(DOMAIN bm.cluster_assignment)),
                             i         |-> 1]]
          /\ last' = Op("update_matrix_chunk", par.next, -1, -1)
    /\ UNCHANGED <<G, bm, algorithm, pc, ret, target, proposals_per_split,
                   iter, num_iterations, round, h_start, forced_merge, frame,
                   explored, commits, result>>

(* update_matrix: a thread's next step on its vertex_u: the neighbour at   *)
(* position i of the adjacency list, or the increment of clusters_sizes    *)
(* that ends the vertex                                                    *)
UpdateMatrixThread ==
    /\ pc = "parallel"
    /\ par.region = "update_matrix"
    /\ \E w \in DOMAIN par.workers :
          LET worker    == par.workers[w]
              vertex_u  == worker.vertex_u
              cluster_u == bm.cluster_assignment[vertex_u]
              adjacency == bm.graph[vertex_u]
          IN  /\ vertex_u >= 0
              /\ IF vertex_u >= get_vertex_count(bm.graph)
                    \/ ~InRange(bm, cluster_u)
                 THEN /\ bm' = bm
                      /\ par' = [par EXCEPT !.workers[w] = next_vertex(worker)]
                 ELSE IF worker.i <= Len(adjacency)
                 THEN LET vertex_v  == adjacency[worker.i]
                          cluster_v == bm.cluster_assignment[vertex_v]
                      IN  /\ bm' = IF InRange(bm, cluster_v)
                                   THEN [bm EXCEPT
                                            !.block_matrix[cluster_u] =
                                                atomic_increment(@, cluster_v)]
                                   ELSE bm
                          /\ par' = [par EXCEPT
                                        !.workers[w].i = @ + 1,
                                        !.writers =
                                            IF InRange(bm, cluster_v)
                                            THEN @ \cup {w} ELSE @]
                 ELSE /\ bm' = [bm EXCEPT
                                   !.clusters_sizes =
                                       atomic_increment(@, cluster_u)]
                      /\ par' = [par EXCEPT
                                    !.workers[w] = next_vertex(worker),
                                    !.writers = @ \cup {w}]
              /\ last' = Op("update_matrix_thread", vertex_u, w, -1)
    /\ UNCHANGED <<G, algorithm, pc, ret, target, proposals_per_split,
                   iter, num_iterations, round, h_start, forced_merge, frame,
                   explored, commits, result>>

(* update_matrix: the end of the parallel for *)
UpdateMatrixJoin ==
    /\ pc = "parallel"
    /\ par.region = "update_matrix"
    /\ par.next >= Cardinality(DOMAIN bm.cluster_assignment)
    /\ \A w \in DOMAIN par.workers : par.workers[w] = Idle
    /\ par' = [par EXCEPT !.region = "update_matrix_joined"]
    /\ pc' = "done"
    /\ last' = Op("update_matrix_join", -1, -1, -1)
    /\ UNCHANGED <<G, bm, algorithm, ret, target, proposals_per_split, iter,
                   num_iterations, round, h_start, forced_merge, frame,
                   explored, commits, result>>

(* bottom_up_sbp: the parallel region of the merge proposal collection *)
ScanEnter ==
    /\ algorithm = "merge_scan"
    /\ pc = "ready"
    /\ \E team \in 1..MaxWorkers :
          par' = [region    |-> "merge_scan",
                  entry     |-> bm,
                  next      |-> 0,
                  proposals |-> <<>>,
                  workers   |-> [w \in 1..team |->
                                    [local_proposals |-> <<>>, at |-> "for"]]]
    /\ pc' = "parallel"
    /\ last' = Op("scan_fork", -1, -1, -1)
    /\ UNCHANGED <<G, bm, algorithm, ret, target, proposals_per_split, iter,
                   num_iterations, round, h_start, forced_merge, frame,
                   explored, commits, result>>

(* bottom_up_sbp: schedule(dynamic), a thread takes the next cluster c and *)
(* runs the loop body on it                                                *)
ScanIteration ==
    /\ pc = "parallel"
    /\ par.region = "merge_scan"
    /\ par.next < bm.cluster_count
    /\ \E w \in DOMAIN par.workers :
       \E pushed \in cluster_proposal(bm, par.next) :
          /\ par' = [par EXCEPT
                        !.next = @ + 1,
                        !.workers[w].local_proposals = @ \o pushed]
          /\ last' = Op("scan_cluster", par.next, w, -1)
    /\ UNCHANGED <<G, bm, algorithm, pc, ret, target, proposals_per_split,
                   iter, num_iterations, round, h_start, forced_merge, frame,
                   explored, commits, result>>

(* Faulty variant: the insert of a thread replaces what other threads     *)
(* have inserted                                                           *)
insert_overwriting(proposals, local_proposals) == local_proposals

(* bottom_up_sbp: proposals.insert(proposals.end(), local_proposals...) *)
insert(proposals, local_proposals) == proposals \o local_proposals

(* bottom_up_sbp: after the barrier that ends the omp for, a thread adds   *)
(* its local_proposals to proposals in the critical section                *)
ScanCritical ==
    /\ pc = "parallel"
    /\ par.region = "merge_scan"
    /\ par.next >= bm.cluster_count
    /\ \E w \in DOMAIN par.workers :
          /\ par.workers[w].at = "for"
          /\ par' = [par EXCEPT
                        !.proposals = insert(@, par.workers[w].local_proposals),
                        !.workers[w].at = "end"]
          /\ last' = Op("scan_critical", w, -1, -1)
    /\ UNCHANGED <<G, bm, algorithm, pc, ret, target, proposals_per_split,
                   iter, num_iterations, round, h_start, forced_merge, frame,
                   explored, commits, result>>

(* bottom_up_sbp: the end of the parallel region *)
ScanJoin ==
    /\ pc = "parallel"
    /\ par.region = "merge_scan"
    /\ \A w \in DOMAIN par.workers : par.workers[w].at = "end"
    /\ par' = [par EXCEPT !.region = "merge_scan_joined"]
    /\ pc' = "scanned"
    /\ last' = Op("scan_join", -1, -1, -1)
    /\ UNCHANGED <<G, bm, algorithm, ret, target, proposals_per_split, iter,
                   num_iterations, round, h_start, forced_merge, frame,
                   explored, commits, result>>

(* bottom_up_sbp, version with the parallel commit: max_batch *)
max_batch(block_model) ==
    Min(5, IF block_model.cluster_count \div 20 >= 1
           THEN block_model.cluster_count \div 20 ELSE 1)

(* bottom_up_sbp, version with the parallel commit: the break on no        *)
(* proposals, the sort, select_independent_merges, and the fork of the     *)
(* parallel for over the merges                                            *)
CommitEnter ==
    /\ pc = "scanned"
    /\ IF par.proposals = <<>>
       THEN /\ pc' = "done"
            /\ par' = par
            /\ last' = Op("commit_none", -1, -1, -1)
       ELSE /\ pc' = "parallel"
            /\ last' = Op("commit_fork", -1, -1, -1)
            /\ \E merges \in independent_merges(bm, par.proposals,
                                                max_batch(bm), <<>>) :
                  par' = [region |-> "merge_commit",
                          entry  |-> bm,
                          merges |-> merges,
                          todo   |-> 1..Len(merges)]
    /\ UNCHANGED <<G, bm, algorithm, ret, target, proposals_per_split, iter,
                   num_iterations, round, h_start, forced_merge, frame,
                   explored, commits, result>>

(* bottom_up_sbp, version with the parallel commit: the thread that runs   *)
(* iteration idx rewrites the assignment inside the critical section       *)
CommitThread ==
    /\ pc = "parallel"
    /\ par.region = "merge_commit"
    /\ \E idx \in par.todo :
          /\ bm' = [bm EXCEPT !.cluster_assignment =
                       [v \in DOMAIN @ |->
                           IF @[v] = par.merges[idx].c2
                           THEN par.merges[idx].c1 ELSE @[v]]]
          /\ par' = [par EXCEPT !.todo = @ \ {idx}]
          /\ last' = Op("commit_thread", -1, par.merges[idx].c2,
                        par.merges[idx].c1)
    /\ UNCHANGED <<G, algorithm, pc, ret, target, proposals_per_split,
                   iter, num_iterations, round, h_start, forced_merge, frame,
                   explored, commits, result>>

(* bottom_up_sbp, version with the parallel commit: the end of the         *)
(* parallel for                                                            *)
CommitJoin ==
    /\ pc = "parallel"
    /\ par.region = "merge_commit"
    /\ par.todo = {}
    /\ par' = [par EXCEPT !.region = "merge_commit_joined"]
    /\ pc' = "done"
    /\ last' = Op("commit_join", -1, -1, -1)
    /\ UNCHANGED <<G, bm, algorithm, ret, target, proposals_per_split, iter,
                   num_iterations, round, h_start, forced_merge, frame,
                   explored, commits, result>>

NextRegions ==
    \/ UpdateMatrixEnter
    \/ UpdateMatrixChunk
    \/ UpdateMatrixThread
    \/ UpdateMatrixJoin
    \/ ScanEnter
    \/ ScanIteration
    \/ ScanCritical
    \/ ScanJoin
    \/ CommitEnter
    \/ CommitThread
    \/ CommitJoin
    \/ ParallelEnter
    \/ ParallelIteration
    \/ ParallelCritical
    \/ ParallelJoin

SpecRegions == InitRegions /\ [][NextRegions]_vars

OpenRegions == {"update_matrix", "merge_scan", "merge_commit", "mcmc_refine"}

(* a step taken by a thread inside a parallel region *)
ThreadStep ==
    /\ par.region \in OpenRegions
    /\ par'.region = par.region

ChangedEntries ==
    {rs \in (0..bm.cluster_count-1) \X (0..bm.cluster_count-1) :
        bm'.block_matrix[rs[1]][rs[2]] # bm.block_matrix[rs[1]][rs[2]]}

ChangedSizes ==
    {r \in 0..bm.cluster_count-1 : bm'.clusters_sizes[r] # bm.clusters_sizes[r]}

C14_ThreadWrites ==
    ThreadStep =>
        /\ bm'.graph = bm.graph
        /\ bm'.cluster_count = bm.cluster_count
        /\ IF par.region = "update_matrix"
           THEN /\ bm'.cluster_assignment = bm.cluster_assignment
                /\ Cardinality(ChangedEntries) + Cardinality(ChangedSizes) <= 1
                /\ \A rs \in ChangedEntries :
                      bm'.block_matrix[rs[1]][rs[2]]
                          = bm.block_matrix[rs[1]][rs[2]] + 1
                /\ \A r \in ChangedSizes :
                      bm'.clusters_sizes[r] = bm.clusters_sizes[r] + 1
           ELSE IF par.region = "merge_commit"
           THEN /\ bm'.block_matrix = bm.block_matrix
                /\ bm'.clusters_sizes = bm.clusters_sizes
                /\ \E idx \in par.todo :
                      bm'.cluster_assignment =
                          apply_merges(bm.cluster_assignment,
                                       <<par.merges[idx]>>, 1)
           ELSE bm' = bm

C14_Joined ==
    /\ par.region = "update_matrix_joined" => bm = update_matrix(par.entry)
    /\ par.region = "merge_commit_joined" =>
          bm = [par.entry EXCEPT !.cluster_assignment =
                   apply_merges(@, par.merges, 1)]

-----------------------------------------------------------------------------
(* Properties of the selection of the merge batch *)

(* proposal p comes before proposal q in the order: smaller delta, then    *)
(* lower block id, then lower partner id                                   *)
LowestIdFirst(p, q) ==
    \/ p.deltaH < q.deltaH
    \/ p.deltaH = q.deltaH /\ p.c1 < q.c1
    \/ p.deltaH = q.deltaH /\ p.c1 = q.c1 /\ p.c2 <= q.c2

(* the batch that the order above selects from a set of proposals *)
RECURSIVE LowestIdMerges(_, _, _)
LowestIdMerges(proposals, limit, taken) ==
    LET used_clusters == {taken[k].c1 : k \in 1..Len(taken)}
                         \cup {taken[k].c2 : k \in 1..Len(taken)}
        free == {p \in proposals :
                    p.c1 \notin used_clusters /\ p.c2 \notin used_clusters}
        p    == CHOOSE x \in free : \A y \in free : LowestIdFirst(x, y)
    IN  IF free = {} THEN taken
        ELSE IF Len(taken) + 1 >= limit THEN Append(taken, p)
        ELSE LowestIdMerges(proposals, limit, Append(taken, p))

\* C15 as stated, for a bottom-up iteration: the batch of merges that is
\* committed is the one that the set of proposals determines when the
\* minimum delta wins and ties in delta go to the lowest block id, then the
\* lowest partner id.
C15_AsStated ==
    result.call = "independent_merges" =>
        result.merges =
            LowestIdMerges({result.proposals[k] :
                               k \in 1..Len(result.proposals)},
                           max_merges(result.before, target), <<>>)

-----------------------------------------------------------------------------
(* A driver called twice on the same graph with the same arguments, by one *)
(* thread.  A call takes no seed: the generator of the thread is seeded    *)
(* from std::random_device at its first use, so the draws of a call are    *)
(* not fixed by the arguments of the call.                                 *)

InitTwice == Drivers(SmallGraphs)

(* the first call has returned; its assignment is kept and the call is     *)
(* made again                                                              *)
CallAgain ==
    /\ pc = "done"
    /\ FirstAssignment = <<>>
    /\ result' = [call  |-> algorithm,
                  first |-> bm.cluster_assignment]
    /\ bm' = IF algorithm = "top_down"
             THEN update_matrix(
                      [BlockModel(G, minClusterCount) EXCEPT
                          !.cluster_assignment = [v \in DOMAIN G |-> 0]])
             ELSE update_matrix(
                      [BlockModel(G, get_vertex_count(G)) EXCEPT
                          !.cluster_assignment = [v \in DOMAIN G |-> v]])
    /\ pc' = IF algorithm = "top_down" THEN "td_loop" ELSE "bu_loop"
    /\ ret' = "done"
    /\ iter' = 0
    /\ num_iterations' = 0
    /\ round' = 0
    /\ h_start' = Double(0, 0)
    /\ forced_merge' = FALSE
    /\ frame' = NoFrame
    /\ explored' = 0
    /\ commits' = 0
    /\ last' = Op("call", -1, -1, -1)
    /\ UNCHANGED <<G, algorithm, target, proposals_per_split, par>>

NextTwice ==
    \/ TopDownIteration
    \/ BottomUpIteration
    \/ McmcPropose
    \/ McmcDecide
    \/ CallAgain

SpecTwice == InitTwice /\ [][NextTwice]_vars

-----------------------------------------------------------------------------
(* calculate_nmi, called directly on two label vectors *)

(* a Probability that is a quotient of two sums: num / den *)
Ratio(num, den) == [num |-> num, den |-> den]

(* calculate_nmi: the FrequencyMap of a label vector *)
frequency_map(assignment) ==
    [key \in {assignment[i] : i \in 1..Len(assignment)} |->
        Cardinality({i \in 1..Len(assignment) : assignment[i] = key})]

(* calculate_nmi: the JointFrequencyMap of two label vectors *)
joint_frequency_map(true_assignment, output_assingment) ==
    [key \in {<<true_assignment[i], output_assingment[i]>> :
                 i \in 1..Len(true_assignment)} |->
        Cardinality({i \in 1..Len(true_assignment) :
                        <<true_assignment[i], output_assingment[i]>> = key})]

(* calculate_nmi: the entropy loop, - sum of prob * log(prob), multiplied  *)
(* by vertex_count                                                         *)
label_entropy(map, vertex_count) ==
    SumOver([key \in DOMAIN map |-> map[key] * (Ln[vertex_count] - Ln[map[key]])],
            DOMAIN map)

(* calculate_nmi: the loop over map_joint, sum of p_xy * log(p_xy / (p_x * *)
(* p_y)), multiplied by vertex_count                                       *)
mutual_information(map_joint, map_true, map_output, vertex_count) ==
    SumOver([key \in DOMAIN map_joint |->
                map_joint[key] * (Ln[map_joint[key]] + Ln[vertex_count]
                                  - Ln[map_true[key[1]]]
                                  - Ln[map_output[key[2]]])],
            DOMAIN map_joint)

(* Faulty variant: the factor 2.0 is missing *)
calculate_nmi_unnormalised(true_assignment, output_assingment) ==
    IF Len(true_assignment) # Len(output_assingment)
       \/ Len(true_assignment) = 0
    THEN Ratio(0, 1)
    ELSE LET vertex_count == Len(true_assignment)
             map_true   == frequency_map(true_assignment)
             map_output == frequency_map(output_assingment)
             h_true     == label_entropy(map_true, vertex_count)
             h_output   == label_entropy(map_output, vertex_count)
             mi_ == mutual_information(
                        joint_frequency_map(true_assignment, output_assingment),
                        map_true, map_output, vertex_count)
         IN  IF h_true + h_output = 0 THEN Ratio(0, 1)
             ELSE Ratio(mi_, h_true + h_output)

(* calculate_nmi *)
calculate_nmi(true_assignment, output_assingment) ==
    IF Len(true_assignment) # Len(output_assingment)
       \/ Len(true_assignment) = 0
    THEN Ratio(0, 1)
    ELSE LET vertex_count == Len(true_assignment)
             map_true   == frequency_map(true_assignment)
             map_output == frequency_map(output_assingment)
             h_true     == label_entropy(map_true, vertex_count)
             h_output   == label_entropy(map_output, vertex_count)
             mi_ == mutual_information(
                        joint_frequency_map(true_assignment, output_assingment),
                        map_true, map_output, vertex_count)
         IN  IF h_true + h_output = 0 THEN Ratio(0, 1)
             ELSE Ratio(2 * mi_, h_true + h_output)

(* the label vectors given to calculate_nmi *)
LabelVectors == UNION {[1..n -> 0..MaxK-1] : n \in 0..MaxN}

InitNmi ==
    /\ algorithm = "calculate_nmi"
    /\ G = [v \in {} |-> <<>>]
    /\ bm = DefaultBlockModel
    /\ pc = "ready"
    /\ ret = "ready"
    /\ target = 0
    /\ proposals_per_split = 0
    /\ iter = 0
    /\ num_iterations = 0
    /\ round = 0
    /\ h_start = Double(0, 0)
    /\ forced_merge = FALSE
    /\ frame = NoFrame
    /\ explored = 0
    /\ commits = 0
    /\ last = Op("call", -1, -1, -1)
    /\ result = NoResult
    /\ par = NoPar

CalculateNmi ==
    /\ algorithm = "calculate_nmi"
    /\ \E true_assignment \in LabelVectors :
       \E output_assingment \in LabelVectors :
          result' = [call  |-> "calculate_nmi",
                     true_assignment   |-> true_assignment,
                     output_assingment |-> output_assingment,
                     value |-> calculate_nmi(true_assignment,
                                             output_assingment)]
    /\ last' = Op("calculate_nmi", -1, -1, -1)
    /\ UNCHANGED <<G, bm, algorithm, pc, ret, target, proposals_per_split,
                   iter, num_iterations, round, h_start, forced_merge, frame,
                   explored, commits, par>>

NextNmi == CalculateNmi

SpecNmi == InitNmi /\ [][NextNmi]_vars

(* calculate_nmi(a, a) has returned for a non-empty a *)
NmiOfItself ==
    /\ result.call = "calculate_nmi"
    /\ result.true_assignment = result.output_assingment
    /\ Len(result.true_assignment) > 0

-----------------------------------------------------------------------------
(* update_matrix called twice in a row on any model a caller can hold: the *)
(* block matrix and the sizes are those of some earlier assignment, and    *)
(* the caller has since written any values into the assignment             *)

AnyAssignments(graph, K) == [DOMAIN graph -> nullCluster..K]

InitIdem ==
    /\ algorithm = "update_matrix_twice"
    /\ G \in SmallGraphs
    /\ \E K \in 0..MaxK :
       \E earlier \in AnyAssignments(G, K) :
       \E written \in AnyAssignments(G, K) :
          bm = [update_matrix([BlockModel(G, K) EXCEPT
                                  !.cluster_assignment = earlier])
                EXCEPT !.cluster_assignment = written]
    /\ pc = "ready"
    /\ ret = "ready"
    /\ target = 0
    /\ proposals_per_split = 0
    /\ iter = 0
    /\ num_iterations = 2
    /\ round = 0
    /\ h_start = Double(0, 0)
    /\ forced_merge = FALSE
    /\ frame = NoFrame
    /\ explored = 0
    /\ commits = 0
    /\ last = Op("call", -1, -1, -1)
    /\ result = NoResult
    /\ par = NoPar

(* one call of update_matrix; iter counts the calls, result keeps the      *)
(* model as it was before the first call and as the first call left it     *)
UpdateMatrixAgain ==
    /\ algorithm = "update_matrix_twice"
    /\ iter < num_iterations
    /\ bm' = update_matrix(bm)
    /\ iter' = iter + 1
    /\ result' = IF iter = 0
                 THEN [call |-> "update_matrix", entry |-> bm, once |-> bm']
                 ELSE result
    /\ last' = Op("update_matrix", -1, -1, -1)
    /\ UNCHANGED <<G, algorithm, pc, ret, target, proposals_per_split,
                   num_iterations, round, h_start, forced_merge, frame,
                   explored, commits, par>>

NextIdem == UpdateMatrixAgain

SpecIdem == InitIdem /\ [][NextIdem]_vars

\* C18: after update_matrix has been called twice in a row, the block
\* matrix and the sizes are the ones the first call left; no call changes
\* the assignment, the cluster count or the graph of the model.
C18_UpdateMatrixIdempotent ==
    /\ [](iter = 2 =>
            /\ bm.block_matrix = result.once.block_matrix
            /\ bm.clusters_sizes = result.once.clusters_sizes)
    /\ [][/\ bm'.cluster_assignment = bm.cluster_assignment
          /\ bm'.cluster_count = bm.cluster_count
          /\ bm'.graph = bm.graph]_vars

\* C18 witness: two calls were made on a model whose block matrix and sizes
\* were stale and part of whose assignment is outside [0, K); the first
\* call changed both.
C18_Witness ==
    /\ iter = 2
    /\ bm.cluster_count = 2
    /\ result.entry.block_matrix # bm.block_matrix
    /\ result.entry.clusters_sizes # bm.clusters_sizes
    /\ \E v \in DOMAIN bm.cluster_assignment :
          ~InRange(bm, bm.cluster_assignment[v])
    /\ \E r \in 0..1 : bm.block_matrix[r][1 - r] > 0

-----------------------------------------------------------------------------
(* bottom_up_sbp called on the graphs of BatchN vertices, where a batch    *)
(* can hold two merges                                                     *)

InitBatch ==
    /\ Drivers({MakeGraph(BatchN, E) : E \in SUBSET VertexPairs(BatchN)})
    /\ algorithm = "bottom_up"

SpecBatch ==
    /\ InitBatch
    /\ [][NextStar]_vars
    /\ WF_vars(BottomUpIteration)
    /\ WF_vars(McmcPropose)
    /\ WF_vars(McmcDecide)

(* the clusters of a merge *)
MergeClusters(merge) == {merge.c1, merge.c2}

C19_Picked ==
    result.call = "independent_merges" =>
        LET K      == result.before.cluster_count
            merges == result.merges
        IN  /\ Len(merges) >= 1
            /\ Len(merges) <= Min(K \div 2, K - target)
            /\ \A i \in 1..Len(merges) : merges[i].c1 # merges[i].c2
            /\ \A i, j \in 1..Len(merges) :
                  i # j => MergeClusters(merges[i])
                              \cap MergeClusters(merges[j]) = {}

\* C19: every iteration of the bottom-up loop that starts with K >= 2
\* clusters picks a batch of merges; in the batch no cluster id occurs, as
\* c1 or as c2, in more than one merge, and the number of merges is at least
\* 1 and at most min(floor(0.5 * K), K - target).
C19_BatchSelection ==
    /\ [](C19_Picked)
    /\ [][(/\ algorithm = "bottom_up"
           /\ pc = "bu_loop"
           /\ bm.cluster_count >= 2
           /\ bm.cluster_count > target)
              => (result'.call = "independent_merges" /\ result'.before = bm)]_vars

\* C19 witness: an iteration picked two merges.
C19_Witness ==
    /\ result.call = "independent_merges"
    /\ last.op = "bu_commit"
    /\ Len(result.merges) = 2

(* the assignment after the merge commit, before the renumbering *)
Committed == apply_merges(result.before.cluster_assignment, result.merges, 1)

\* C20: after the renumbering of a bottom-up iteration, K is the number of
\* cluster ids in use after the merge commit; the assignment uses exactly
\* the ids 0..K-1; a lower used id is mapped to a lower new id; two vertices
\* are in the same cluster iff they were after the merge commit; and the
\* block matrix and the sizes have K entries per dimension and are the ones
\* update_matrix computes from the new assignment.
C20_Renumbering ==
    (last.op = "bu_commit" /\ result.call = "independent_merges") =>
        LET V == DOMAIN Committed
            K == bm.cluster_count
        IN  /\ K = Cardinality({Committed[v] : v \in V})
            /\ {bm.cluster_assignment[v] : v \in V} = 0..K-1
            /\ \A u, v \in V :
                  Committed[u] < Committed[v]
                     => bm.cluster_assignment[u] < bm.cluster_assignment[v]
            /\ \A u, v \in V :
                  (bm.cluster_assignment[u] = bm.cluster_assignment[v])
                     <=> (Committed[u] = Committed[v])
            /\ DOMAIN bm.clusters_sizes = 0..K-1
            /\ DOMAIN bm.block_matrix = 0..K-1
            /\ \A r \in 0..K-1 : DOMAIN bm.block_matrix[r] = 0..K-1
            /\ \A r \in 0..K-1 : bm.clusters_sizes[r] > 0
            /\ Consistent(bm)

\* C20 witness: a batch of two merges was committed and the renumbering
\* moved a cluster to a lower id.
C20_Witness ==
    /\ last.op = "bu_commit"
    /\ result.call = "independent_merges"
    /\ Len(result.merges) = 2
    /\ bm.cluster_count = 2
    /\ \E v \in DOMAIN Committed : bm.cluster_assignment[v] < Committed[v]

-----------------------------------------------------------------------------
(* The merge commit of one bottom-up iteration, pair by pair.  The batch   *)
(* is the one the iteration picks; the pairs are committed in any order,   *)
(* one pair per critical section, which covers the parallel for of the     *)
(* older version and the in-order loop of the newer one.                   *)

InitCommit ==
    /\ algorithm = "merge_commit"
    /\ G \in {MakeGraph(BatchN, E) : E \in SUBSET VertexPairs(BatchN)}
    /\ \E K \in 2..BatchN :
       \E assignment \in Assignments(G, K) :
          bm = update_matrix(
                   [BlockModel(G, K) EXCEPT !.cluster_assignment = assignment])
    /\ target \in 1..MaxTarget
    /\ pc = "ready"
    /\ ret = "done"
    /\ iter = 0
    /\ num_iterations = 0
    /\ round = 0
    /\ h_start = Double(0, 0)
    /\ proposals_per_split = 0
    /\ forced_merge = FALSE
    /\ frame = NoFrame
    /\ explored = 0
    /\ commits = 0
    /\ last = Op("call", -1, -1, -1)
    /\ result = NoResult
    /\ par = NoPar

(* bottom_up_sbp: one iteration from the loop test to the batch of         *)
(* independent merges, about to be applied                                 *)
BatchEnter ==
    /\ algorithm = "merge_commit"
    /\ pc = "ready"
    /\ IF bm.cluster_count <= target
       THEN /\ pc' = "done"
            /\ par' = NoPar
            /\ last' = Op("commit_none", -1, -1, -1)
       ELSE \E found \in find_proposals(bm) :
               IF found.proposals = <<>>
               THEN /\ pc' = "done"
                    /\ par' = NoPar
                    /\ last' = Op("commit_none", -1, -1, -1)
               ELSE /\ pc' = "parallel"
                    /\ last' = Op("commit_fork", -1, -1, -1)
                    /\ \E merges \in independent_merges(
                                         bm, found.proposals,
                                         max_merges(bm, target), <<>>) :
                          par' = [region |-> "merge_commit",
                                  entry  |-> bm,
                                  merges |-> merges,
                                  todo   |-> 1..Len(merges)]
    /\ UNCHANGED <<G, bm, algorithm, ret, target, proposals_per_split, iter,
                   num_iterations, round, h_start, forced_merge, frame,
                   explored, commits, result>>

NextCommit ==
    \/ BatchEnter
    \/ CommitThread
    \/ CommitJoin

SpecCommit == InitCommit /\ [][NextCommit]_vars

(* the cluster ids some vertex is assigned to *)
UsedClusters(block_model) ==
    {block_model.cluster_assignment[v] :
        v \in DOMAIN block_model.cluster_assignment}

(* one pair committed: only the vertices of c2 are rewritten, to c1, and   *)
(* one cluster fewer is in use                                             *)
C21_PairCommitted ==
    (pc = "parallel" /\ par.region = "merge_commit"
        /\ bm'.cluster_assignment # bm.cluster_assignment)
    => /\ \E idx \in par.todo :
             /\ par'.todo = par.todo \ {idx}
             /\ \A v \in DOMAIN G :
                   bm'.cluster_assignment[v] =
                       IF bm.cluster_assignment[v] = par.merges[idx].c2
                       THEN par.merges[idx].c1
                       ELSE bm.cluster_assignment[v]
       /\ Cardinality(UsedClusters(bm'))
             = Cardinality(UsedClusters(bm)) - 1

(* all pairs committed: the assignment is the one of the in-order commit *)
C21_AllCommitted ==
    par.region = "merge_commit_joined" =>
        /\ bm.cluster_assignment
              = apply_merges(par.entry.cluster_assignment, par.merges, 1)
        /\ Cardinality(UsedClusters(bm))
              = Cardinality(UsedClusters(par.entry)) - Len(par.merges)

\* C21: for a picked batch of pairwise-disjoint merges, the assignment after
\* all pairs are committed (each rewriting every vertex of c2 to c1) is the
\* same for every order in which the critical sections commit the pairs, and
\* every committed pair lowers the number of non-empty clusters by exactly
\* one.
C21_CommitOrder == [](C21_AllCommitted) /\ [][C21_PairCommitted]_vars

\* C21 witness: of a batch of two merges, the second pair has been committed
\* before the first.
C21_Witness ==
    /\ par.region = "merge_commit"
    /\ Len(par.merges) = 2
    /\ par.todo = {1}
    /\ last.op = "commit_thread"
    /\ bm.cluster_assignment # par.entry.cluster_assignment

-----------------------------------------------------------------------------
(* The proposals of the gather region *)

(* how often each element occurs in a sequence *)
Occurrences(seq) ==
    [x \in {seq[k] : k \in 1..Len(seq)} |->
        Cardinality({k \in 1..Len(seq) : seq[k] = x})]

(* the clusters c_prime that c can be merged with: non-empty, not c, and   *)
(* with an edge between the two                                            *)
Mergeable(block_model, c) ==
    {c_prime \in 0..block_model.cluster_count-1 :
        /\ c_prime # c
        /\ block_model.clusters_sizes[c_prime] > 0
        /\ \/ block_model.block_matrix[c][c_prime] > 0
           \/ block_model.block_matrix[c_prime][c] > 0}

\* C22: after the gather region, whatever thread ran which cluster and
\* whatever the order of the critical sections was, proposals holds for each
\* cluster c at most one triple (c, c', delta); it holds one iff c is
\* non-empty and the minimum of compute_delta_H_merge(c, c') over the
\* clusters c' that c can be merged with is below 0, and then c' is a
\* minimiser and delta that minimum.  As a multiset, proposals is what the
\* scan of the clusters by a single thread collects: nothing is lost and
\* nothing is there twice.  The model is not written.
C22_Gathered ==
    par.region = "merge_scan_joined" =>
        /\ bm = par.entry
        /\ \A c \in 0..bm.cluster_count-1 :
              LET mine == {k \in 1..Len(par.proposals) :
                              par.proposals[k].c1 = c}
                  beneficial ==
                      {c_prime \in Mergeable(bm, c) :
                          compute_delta_H_merge(bm, c, c_prime) < 0}
              IN  /\ Cardinality(mine) <= 1
                  /\ mine # {} <=>
                        (bm.clusters_sizes[c] > 0 /\ beneficial # {})
                  /\ \A k \in mine :
                        LET triple == par.proposals[k]
                        IN  /\ triple.c2 \in Mergeable(bm, c)
                            /\ triple.deltaH
                                  = compute_delta_H_merge(bm, c, triple.c2)
                            /\ \A x \in Mergeable(bm, c) :
                                  triple.deltaH
                                     <= compute_delta_H_merge(bm, c, x)
        /\ \E gathered \in gather_proposals(bm, 0) :
              Occurrences(par.proposals) = Occurrences(gathered)

\* C22 witness: two threads each found a proposal and the second thread
\* went through the critical section first.
C22_Witness ==
    /\ par.region = "merge_scan_joined"
    /\ Len(par.proposals) = 2
    /\ DOMAIN par.workers = 1..2
    /\ \A w \in 1..2 : Len(par.workers[w].local_proposals) = 1
    /\ par.proposals[1] = par.workers[2].local_proposals[1]

-----------------------------------------------------------------------------
(* The commit of a split by top_down_sbp *)

(* both drivers on the graphs of BatchN vertices, where top_down_sbp      *)
(* splits a cluster of a model that has two                                *)
InitSplit == Drivers({MakeGraph(BatchN, E) : E \in SUBSET VertexPairs(BatchN)})

SpecSplit == InitSplit /\ [][NextEngine]_vars

(* the class the two-way split gave to the vertex v of the chosen cluster *)
SplitClass(before, best, v) ==
    LET sub == extract_subgraph(before, best.cluster_idx)
    IN  best.split_bm.cluster_assignment[
            global_to_local(sub.subgraph_mapping, v)]

\* C23: a split commit of top_down_sbp increments the cluster count by
\* exactly one; the new id, the old cluster count, is given to the vertices
\* of the chosen cluster whose class in the split is 1 and to no other
\* vertex; every other vertex keeps its cluster; and after update_matrix the
\* chosen cluster and the new cluster are both non-empty and the block
\* matrix and the sizes are those of the new assignment.
C23_SplitCommitFrame ==
    (last.op = "td_commit" /\ result.call = "commit_split") =>
        LET before == result.before
            best   == result.best
            K_new  == before.cluster_count
        IN  /\ bm.cluster_count = K_new + 1
            /\ \A v \in DOMAIN G :
                  bm.cluster_assignment[v] =
                      IF /\ before.cluster_assignment[v] = best.cluster_idx
                         /\ SplitClass(before, best, v) = 1
                      THEN K_new
                      ELSE before.cluster_assignment[v]
            /\ \A v \in DOMAIN G :
                  before.cluster_assignment[v] # K_new
            /\ bm.clusters_sizes[best.cluster_idx] > 0
            /\ bm.clusters_sizes[K_new] > 0
            /\ Consistent(bm)

\* C23 witness: a cluster of a model with two clusters was split, with
\* vertices in both classes, while the other cluster kept its vertices.
C23_Witness ==
    /\ last.op = "td_commit"
    /\ result.call = "commit_split"
    /\ result.before.cluster_count = 2
    /\ \E v \in DOMAIN G :
          result.before.cluster_assignment[v] # result.best.cluster_idx
    /\ \E v \in DOMAIN G : bm.cluster_assignment[v] = 2
    /\ \E v \in DOMAIN G : bm.cluster_assignment[v] = result.best.cluster_idx

-----------------------------------------------------------------------------
(* connectivity_snowball_split called directly, step by step.  G is the    *)
(* graph of the subgraph and proposals_per_split the iteration_proposal.   *)
(* par holds best_bm and best_h and, per thread, local_best_bm,            *)
(* local_best_h, the iterations of the omp for it still has to run and the *)
(* trial in progress: its assignment and the rest of the shuffled          *)
(* unassigned_vec.  par.generated collects every current_bm with its h.    *)

NoTrial == [assignment |-> <<>>, unassigned |-> {}]

(* the path 0 - 1 - ... - N-1 *)
Path(N) == MakeGraph(N, {p \in VertexPairs(N) : p[2] = p[1] + 1})

(* the calls: up to SnowP proposals on the graphs below SnowN vertices and *)
(* on the path of SnowN vertices, one proposal on every graph of SnowN     *)
(* vertices                                                                *)
InitSnowball ==
    /\ algorithm = "snowball"
    /\ \E N \in 1..SnowN :
          /\ G \in {MakeGraph(N, E) : E \in SUBSET VertexPairs(N)}
          /\ proposals_per_split \in
                IF N < SnowN \/ G = Path(N) THEN 0..SnowP ELSE {1}
    /\ bm = DefaultBlockModel
    /\ pc = "ready"
    /\ ret = "done"
    /\ iter = 0
    /\ num_iterations = 0
    /\ round = 0
    /\ h_start = Double(0, 0)
    /\ target = 0
    /\ forced_merge = FALSE
    /\ frame = NoFrame
    /\ explored = 0
    /\ commits = 0
    /\ last = Op("call", -1, -1, -1)
    /\ result = NoResult
    /\ par = NoPar

(* connectivity_snowball_split: the early return, or the fork of the       *)
(* parallel region                                                         *)
SnowballEnter ==
    /\ algorithm = "snowball"
    /\ pc = "ready"
    /\ IF get_vertex_count(G) < binarySplitCount
       THEN /\ pc' = "done"
            /\ par' = NoPar
            /\ result' = [call  |-> "connectivity_snowball_split",
                          value |-> [BlockModel(G, minClusterCount) EXCEPT
                                        !.cluster_assignment =
                                            [v \in DOMAIN G |-> 0]]]
            /\ last' = Op("snowball_return", -1, -1, -1)
       ELSE /\ pc' = "parallel"
            /\ result' = result
            /\ last' = Op("snowball_fork", -1, -1, -1)
            /\ \E team \in 1..MaxWorkers :
               \E share \in Shares(team, proposals_per_split) :
                  par' = [region    |-> "snowball",
                          best_bm   |-> DefaultBlockModel,
                          best_h    |-> Double(inf, 0),
                          generated |-> {},
                          workers   |->
                              [w \in 1..team |->
                                  [local_best_bm |-> DefaultBlockModel,
                                   local_best_h  |-> Double(inf, 0),
                                   todo          |-> share[w],
                                   trial         |-> NoTrial,
                                   at            |-> "for"]]]
    /\ UNCHANGED <<G, bm, algorithm, ret, target, proposals_per_split, iter,
                   num_iterations, round, h_start, forced_merge, frame,
                   explored, commits>>

(* connectivity_snowball_split: an iteration starts; the two seeds are     *)
(* drawn, assigned, and unassigned_vec is collected and shuffled           *)
SnowballSeed ==
    /\ pc = "parallel"
    /\ par.region = "snowball"
    /\ \E w \in DOMAIN par.workers :
          /\ par.workers[w].at = "for"
          /\ par.workers[w].todo > 0
          /\ par.workers[w].trial = NoTrial
          /\ \E seed1 \in DOMAIN G :
             \E seed2 \in DOMAIN G \ {seed1} :
                /\ par' = [par EXCEPT !.workers[w].trial =
                              [assignment |->
                                  [v \in DOMAIN G |->
                                      IF v = seed1 THEN 0
                                      ELSE IF v = seed2 THEN 1
                                      ELSE nullCluster],
                               unassigned |-> DOMAIN G \ {seed1, seed2}]]
                /\ last' = Op("snowball_seed", w, seed1, seed2)
    /\ UNCHANGED <<G, bm, algorithm, pc, ret, target, proposals_per_split,
                   iter, num_iterations, round, h_start, forced_merge, frame,
                   explored, commits, result>>

(* connectivity_snowball_split: one iteration of the loop over             *)
(* unassigned_vec; the shuffle makes any unassigned vertex the next one    *)
SnowballAssign ==
    /\ pc = "parallel"
    /\ par.region = "snowball"
    /\ \E w \in DOMAIN par.workers :
          LET trial == par.workers[w].trial
          IN  /\ trial # NoTrial
              /\ \E vertex \in trial.unassigned :
                 \E cluster \in snowball_vote(G, trial.assignment, vertex) :
                    /\ par' = [par EXCEPT !.workers[w].trial =
                                  [assignment |->
                                      [v \in DOMAIN G |->
                                          IF v = vertex THEN cluster
                                          ELSE trial.assignment[v]],
                                   unassigned |->
                                      trial.unassigned \ {vertex}]]
                    /\ last' = Op("snowball_assign", vertex, w, cluster)
    /\ UNCHANGED <<G, bm, algorithm, pc, ret, target, proposals_per_split,
                   iter, num_iterations, round, h_start, forced_merge, frame,
                   explored, commits, result>>

(* Faulty variant: the local best is the last proposal *)
local_better_always(h, local_best_h) == TRUE

(* connectivity_snowball_split: h < local_best_h *)
local_better(h, local_best_h) == DoubleLess(h, local_best_h)

(* connectivity_snowball_split: the end of an iteration: current_bm gets   *)
(* the assignment, update_matrix, compute_H and the local best             *)
SnowballFinish ==
    /\ pc = "parallel"
    /\ par.region = "snowball"
    /\ \E w \in DOMAIN par.workers :
          LET worker == par.workers[w]
              current_bm ==
                  update_matrix(
                      [BlockModel(G, binarySplitCount) EXCEPT
                          !.cluster_assignment = worker.trial.assignment])
          IN  /\ worker.trial # NoTrial
              /\ worker.trial.unassigned = {}
              /\ \E rank \in 0..MaxRound :
                    LET h == Double(compute_H(current_bm), rank)
                    IN  /\ \A g \in par.generated :
                              g.bm = current_bm => g.h = h
                        /\ par' = [par EXCEPT
                              !.generated = @ \cup {[bm |-> current_bm,
                                                     h  |-> h]},
                              !.workers[w] =
                                  IF local_better(h, worker.local_best_h)
                                  THEN [worker EXCEPT
                                           !.local_best_h  = h,
                                           !.local_best_bm = current_bm,
                                           !.todo  = @ - 1,
                                           !.trial = NoTrial]
                                  ELSE [worker EXCEPT
                                           !.todo  = @ - 1,
                                           !.trial = NoTrial]]
              /\ last' = Op("snowball_h", w, -1, -1)
    /\ UNCHANGED <<G, bm, algorithm, pc, ret, target, proposals_per_split,
                   iter, num_iterations, round, h_start, forced_merge, frame,
                   explored, commits, result>>

(* connectivity_snowball_split: a thread that has run its iterations goes  *)
(* through the critical section                                            *)
SnowballCritical ==
    /\ pc = "parallel"
    /\ par.region = "snowball"
    /\ \E w \in DOMAIN par.workers :
          LET worker == par.workers[w]
          IN  /\ worker.at = "for"
              /\ worker.todo = 0
              /\ worker.trial = NoTrial
              /\ par' = IF DoubleLess(worker.local_best_h, par.best_h)
                        THEN [par EXCEPT
                                 !.best_h  = worker.local_best_h,
                                 !.best_bm = worker.local_best_bm,
                                 !.workers[w].at = "end"]
                        ELSE [par EXCEPT !.workers[w].at = "end"]
              /\ last' = Op("snowball_critical", w, -1, -1)
    /\ UNCHANGED <<G, bm, algorithm, pc, ret, target, proposals_per_split,
                   iter, num_iterations, round, h_start, forced_merge, frame,
                   explored, commits, result>>

(* connectivity_snowball_split: return best_bm *)
SnowballJoin ==
    /\ pc = "parallel"
    /\ par.region = "snowball"
    /\ \A w \in DOMAIN par.workers : par.workers[w].at = "end"
    /\ par' = [par EXCEPT !.region = "snowball_joined"]
    /\ result' = [call  |-> "connectivity_snowball_split",
                  value |-> par.best_bm]
    /\ pc' = "done"
    /\ last' = Op("snowball_return", -1, -1, -1)
    /\ UNCHANGED <<G, bm, algorithm, ret, target, proposals_per_split, iter,
                   num_iterations, round, h_start, forced_merge, frame,
                   explored, commits>>

NextSnowball ==
    \/ SnowballEnter
    \/ SnowballSeed
    \/ SnowballAssign
    \/ SnowballFinish
    \/ SnowballCritical
    \/ SnowballJoin

SpecSnowball == InitSnowball /\ [][NextSnowball]_vars

\* C24: for a subgraph with at least 2 vertices and iteration_proposal >= 1,
\* the model connectivity_snowball_split returns has 2 clusters, assigns
\* every vertex of the subgraph to cluster 0 or to cluster 1, has a vertex
\* in each of the two, and its block matrix and sizes are those of its
\* assignment.
C24_TwoColouring ==
    (/\ result.call = "connectivity_snowball_split"
     /\ get_vertex_count(G) >= 2
     /\ proposals_per_split >= 1)
    => LET returned == result.value
       IN  /\ returned.cluster_count = 2
           /\ returned.graph = G
           /\ DOMAIN returned.cluster_assignment = DOMAIN G
           /\ \A v \in DOMAIN G : returned.cluster_assignment[v] \in {0, 1}
           /\ \A c \in {0, 1} :
                 /\ \E v \in DOMAIN G : returned.cluster_assignment[v] = c
                 /\ returned.clusters_sizes[c] > 0
           /\ Consistent(returned)

\* C24 witness: a split of a subgraph of SnowN vertices has returned, with
\* more than one vertex in each cluster.
C24_Witness ==
    /\ result.call = "connectivity_snowball_split"
    /\ get_vertex_count(G) = SnowN
    /\ proposals_per_split = 1
    /\ \A c \in {0, 1} : result.value.clusters_sizes[c] >= 2

(* the neighbours of vertex that the assignment has in cluster *)
NeighboursIn(assignment, vertex, cluster) ==
    {u \in DOMAIN G : /\ \E i \in 1..Len(G[vertex]) : G[vertex][i] = u
                      /\ assignment[u] = cluster}

(* a step of a snowball proposal of thread w: either the two seeds are     *)
(* set, or one unassigned vertex is assigned by the majority of its        *)
(* neighbours assigned so far                                              *)
C25_TrialStep(w) ==
    LET trial == par.workers[w].trial
        after == par'.workers[w].trial
    IN  (after # trial /\ after # NoTrial) =>
           IF trial = NoTrial
           THEN \E seed1, seed2 \in DOMAIN G :
                   /\ seed1 # seed2
                   /\ after.assignment[seed1] = 0
                   /\ after.assignment[seed2] = 1
                   /\ after.unassigned = DOMAIN G \ {seed1, seed2}
                   /\ \A v \in after.unassigned :
                         after.assignment[v] = nullCluster
           ELSE \E v \in trial.unassigned :
                   LET score0 == Cardinality(
                                     NeighboursIn(trial.assignment, v, 0))
                       score1 == Cardinality(
                                     NeighboursIn(trial.assignment, v, 1))
                   IN  /\ trial.assignment[v] = nullCluster
                       /\ after.assignment[v] \in {0, 1}
                       /\ score0 > score1 => after.assignment[v] = 0
                       /\ score1 > score0 => after.assignment[v] = 1
                       /\ after.unassigned = trial.unassigned \ {v}
                       /\ \A u \in DOMAIN G \ {v} :
                             after.assignment[u] = trial.assignment[u]

\* C25: within one snowball proposal every vertex that is not a seed is
\* assigned, in the shuffled order, to the cluster among 0 and 1 that holds
\* strictly more of its neighbours assigned at that moment; it can go to
\* either cluster only when the two counts are equal; and a vertex that has
\* a cluster, the seeds included, is never assigned again in the proposal.
C25_MajorityRule ==
    [][(par.region = "snowball" /\ par'.region = "snowball")
          => \A w \in DOMAIN par.workers : C25_TrialStep(w)]_vars

\* C25 witness: a vertex with more assigned neighbours in cluster 1 than in
\* cluster 0, and a neighbour that was still unassigned, has been assigned
\* to cluster 1.
C25_Witness ==
    /\ par.region = "snowball"
    /\ last.op = "snowball_assign"
    /\ last.new_cluster = 1
    /\ LET trial == par.workers[last.old_cluster].trial
       IN  /\ \E u \in trial.unassigned :
                 \E i \in 1..Len(G[last.vertex]) : G[last.vertex][i] = u
           /\ Cardinality(NeighboursIn(trial.assignment, last.vertex, 1))
                 > Cardinality(NeighboursIn(trial.assignment, last.vertex, 0))

\* C26: when connectivity_snowball_split returns after iteration_proposal
\* >= 1 proposals on a subgraph with at least 2 vertices, however the
\* proposals were shared among the threads and in whatever order the
\* threads went through the critical section, the returned model is one of
\* the proposals generated and no generated proposal has a lower
\* description length.
C26_SnowballReduction ==
    (par.region = "snowball_joined" /\ proposals_per_split >= 1) =>
        /\ par.generated # {}
        /\ \E g \in par.generated :
              /\ g.bm = result.value
              /\ g.h = par.best_h
              /\ g.h.x = compute_H(result.value)
              /\ \A other \in par.generated : ~DoubleLess(other.h, g.h)

\* C26 witness: two threads generated one proposal each, with different
\* description lengths, and the better one, of the thread that entered the
\* critical section last, was returned.
C26_Witness ==
    /\ par.region = "snowball_joined"
    /\ DOMAIN par.workers = 1..2
    /\ \A w \in 1..2 : par.workers[w].local_best_bm # DefaultBlockModel
    /\ par.workers[1].local_best_h.x # par.workers[2].local_best_h.x
    /\ last.op = "snowball_return"
    /\ Cardinality(par.generated) = 2
    /\ result.value = par.workers[2].local_best_bm

-----------------------------------------------------------------------------
(* extract_subgraphs_parallel called directly on a model whose vertices    *)
(* all have a cluster in 0..K-1.  par.subgraphs is the output vector; the  *)
(* iterations of the parallel for, one per cluster, run in any order.      *)

EmptySubGraph == [subgraph_mapping |-> <<>>, graph |-> <<>>]

InitExtract ==
    /\ algorithm = "extract_subgraphs"
    /\ G \in UNION {{MakeGraph(N, E) : E \in SUBSET VertexPairs(N)}
                    : N \in 1..BatchN}
    /\ \E K \in 1..ExtractK :
       \E assignment \in Assignments(G, K) :
          bm = update_matrix(
                   [BlockModel(G, K) EXCEPT !.cluster_assignment = assignment])
    /\ pc = "ready"
    /\ ret = "done"
    /\ iter = 0
    /\ num_iterations = 0
    /\ round = 0
    /\ h_start = Double(0, 0)
    /\ target = 0
    /\ proposals_per_split = 0
    /\ forced_merge = FALSE
    /\ frame = NoFrame
    /\ explored = 0
    /\ commits = 0
    /\ last = Op("call", -1, -1, -1)
    /\ result = NoResult
    /\ par = NoPar

(* extract_subgraphs_parallel: clear, resize, cluster_members, and the     *)
(* fork of the parallel for                                                *)
ExtractEnter ==
    /\ algorithm = "extract_subgraphs"
    /\ pc = "ready"
    /\ par' = [region    |-> "extract_subgraphs",
               subgraphs |-> [cluster \in 0..bm.cluster_count-1 |->
                                 EmptySubGraph],
               todo      |-> 0..bm.cluster_count-1]
    /\ pc' = "parallel"
    /\ last' = Op("extract_fork", -1, -1, -1)
    /\ UNCHANGED <<G, bm, algorithm, ret, target, proposals_per_split, iter,
                   num_iterations, round, h_start, forced_merge, frame,
                   explored, commits, result>>

(* extract_subgraphs_parallel: one iteration of the parallel for *)
ExtractCluster ==
    /\ pc = "parallel"
    /\ par.region = "extract_subgraphs"
    /\ \E cluster \in par.todo :
          /\ par' = [par EXCEPT
                        !.subgraphs[cluster] = extract_subgraph(bm, cluster),
                        !.todo = @ \ {cluster}]
          /\ last' = Op("extract_cluster", -1, cluster, -1)
    /\ UNCHANGED <<G, bm, algorithm, pc, ret, target, proposals_per_split,
                   iter, num_iterations, round, h_start, forced_merge, frame,
                   explored, commits, result>>

(* extract_subgraphs_parallel: the end of the parallel for and the return *)
ExtractJoin ==
    /\ pc = "parallel"
    /\ par.region = "extract_subgraphs"
    /\ par.todo = {}
    /\ par' = [par EXCEPT !.region = "extract_subgraphs_joined"]
    /\ result' = [call      |-> "extract_subgraphs_parallel",
                  subgraphs |-> par.subgraphs]
    /\ pc' = "done"
    /\ last' = Op("extract_return", -1, -1, -1)
    /\ UNCHANGED <<G, bm, algorithm, ret, target, proposals_per_split, iter,
                   num_iterations, round, h_start, forced_merge, frame,
                   explored, commits>>

NextExtract ==
    \/ ExtractEnter
    \/ ExtractCluster
    \/ ExtractJoin

SpecExtract == InitExtract /\ [][NextExtract]_vars

(* u and v are adjacent in G *)
Adjacent(u, v) == \E i \in 1..Len(G[u]) : G[u][i] = v

(* the local vertices i and j are adjacent in the subgraph sub *)
LocalAdjacent(sub, i, j) == \E k \in 1..Len(sub.graph[i]) : sub.graph[i][k] = j

\* C27: for a model in which every vertex has a cluster in 0..K-1,
\* extract_subgraphs_parallel yields K subgraphs; the vertex list of each is
\* strictly ascending, and every vertex v of the graph is in the list of
\* subgraph cluster_assignment[v] and in no other list; the local vertices
\* i and j of a subgraph are adjacent in it iff their global vertices are
\* adjacent in G, once per direction; so an edge of G is in a subgraph iff
\* its two ends are in the same cluster, and then in that subgraph only.
C27_Extraction ==
    result.call = "extract_subgraphs_parallel" =>
        LET subgraphs == result.subgraphs
            K == bm.cluster_count
        IN  /\ DOMAIN subgraphs = 0..K-1
            /\ \A c \in 0..K-1 :
                  LET sub == subgraphs[c]
                      mapping == sub.subgraph_mapping
                      n_sub == Len(mapping)
                  IN  /\ \A i, j \in 1..n_sub :
                            i < j => mapping[i] < mapping[j]
                      /\ {mapping[i] : i \in 1..n_sub}
                            = {v \in DOMAIN G : bm.cluster_assignment[v] = c}
                      /\ DOMAIN sub.graph = 0..n_sub-1
                      /\ \A i, j \in 0..n_sub-1 :
                            /\ LocalAdjacent(sub, i, j)
                                  <=> Adjacent(mapping[i + 1], mapping[j + 1])
                            /\ Cardinality({k \in 1..Len(sub.graph[i]) :
                                               sub.graph[i][k] = j}) <= 1
                      /\ \A i \in 0..n_sub-1 :
                            \A k \in 1..Len(sub.graph[i]) :
                               sub.graph[i][k] \in 0..n_sub-1
            /\ \A u, v \in DOMAIN G :
                  Adjacent(u, v) =>
                     LET holding ==
                            {c \in 0..K-1 :
                                \E i, j \in 0..Len(subgraphs[c].subgraph_mapping)-1 :
                                   /\ subgraphs[c].subgraph_mapping[i + 1] = u
                                   /\ subgraphs[c].subgraph_mapping[j + 1] = v
                                   /\ LocalAdjacent(subgraphs[c], i, j)}
                     IN  holding =
                            IF bm.cluster_assignment[u] = bm.cluster_assignment[v]
                            THEN {bm.cluster_assignment[u]}
                            ELSE {}

\* C27 witness: a model with three clusters on a graph of four vertices was
\* extracted; one edge lies inside a cluster and one joins two clusters,
\* and the cluster with the inner edge does not hold vertex 0.
C27_Witness ==
    /\ result.call = "extract_subgraphs_parallel"
    /\ bm.cluster_count = 3
    /\ get_vertex_count(G) = 4
    /\ \E u, v \in DOMAIN G :
          /\ Adjacent(u, v)
          /\ bm.cluster_assignment[u] = bm.cluster_assignment[v]
          /\ bm.cluster_assignment[0] # bm.cluster_assignment[u]
    /\ \E u, v \in DOMAIN G :
          /\ Adjacent(u, v)
          /\ bm.cluster_assignment[u] # bm.cluster_assignment[v]

-----------------------------------------------------------------------------
(* The range of mcmc_proposal and what it means for mcmc_refine *)

(* the clusters of the neighbours of vertex *)
NeighbourClusters(block_model, vertex) ==
    {block_model.cluster_assignment[block_model.graph[vertex][i]] :
        i \in 1..Len(block_model.graph[vertex])}

(* every value mcmc_proposal can return for vertex on block_model *)
C28_ProposalRange(block_model, vertex) ==
    \A k \in mcmc_proposal(block_model.graph, block_model, vertex) :
        IF Len(block_model.graph[vertex]) = 0
        THEN k = block_model.cluster_assignment[vertex]
        ELSE /\ k \in 0..block_model.cluster_count-1
             /\ \E t \in NeighbourClusters(block_model, vertex) :
                   block_model.block_matrix[t][k] > 0
             /\ block_model.clusters_sizes[k] > 0

(* an iteration of mcmc_refine that moves a vertex: the vertex has a       *)
(* neighbour and the cluster it goes to was not empty                      *)
C28_Moved ==
    (pc = "mcmc" /\ bm' # bm) =>
        \E v \in DOMAIN G :
            /\ Len(G[v]) > 0
            /\ bm'.cluster_assignment[v] # bm.cluster_assignment[v]
            /\ bm.clusters_sizes[bm'.cluster_assignment[v]] > 0
            /\ \E t \in NeighbourClusters(bm, v) :
                  bm.block_matrix[t][bm'.cluster_assignment[v]] > 0
            /\ \A u \in DOMAIN G \ {v} :
                  bm'.cluster_assignment[u] = bm.cluster_assignment[u]

(* over an iteration of mcmc_refine, kept or reverted, K stays and no      *)
(* cluster that was empty before the iteration has a vertex after it       *)
C28_Iteration ==
    /\ bm'.cluster_count = bm.cluster_count
    /\ pc = "mcmc" => NonEmptyClusters(bm') \subseteq NonEmptyClusters(bm)
    /\ pc = "mcmc_moved" =>
          NonEmptyClusters(bm') \subseteq NonEmptyClusters(frame.before)

-----------------------------------------------------------------------------
(* move_vertex called by a caller on a consistent model, also with a       *)
(* new_cluster outside [0, cluster_count): nullCluster or cluster_count.   *)

InitMove ==
    /\ algorithm = "move_vertex"
    /\ G \in SmallGraphs
    /\ \E K \in 1..MaxK :
       \E assignment \in Assignments(G, K) :
          bm = update_matrix(
                   [BlockModel(G, K) EXCEPT !.cluster_assignment = assignment])
    /\ pc = "ready"
    /\ ret = "ready"
    /\ target = 0
    /\ proposals_per_split = 0
    /\ iter = 0
    /\ num_iterations = 0
    /\ round = 0
    /\ h_start = Double(0, 0)
    /\ forced_merge = FALSE
    /\ frame = NoFrame
    /\ explored = 0
    /\ commits = 0
    /\ last = Op("call", -1, -1, -1)
    /\ result = NoResult
    /\ par = NoPar

(* move_vertex with new_cluster outside [0, cluster_count).  The guards    *)
(* at the top test vertex and old_cluster only; the loop skips every       *)
(* neighbour, so B is not written; then clusters_sizes[old_cluster] is     *)
(* decremented and clusters_sizes[new_cluster] is incremented, which is a  *)
(* write outside the vector: undefined behaviour.  Either the write lands  *)
(* in memory that is not part of the model and the call goes on to write   *)
(* cluster_assignment[vertex], or the process is stopped at that write.    *)
MoveVertexOutside ==
    /\ algorithm = "move_vertex"
    /\ pc = "ready"
    /\ \E vertex \in DOMAIN bm.cluster_assignment :
       \E new_cluster \in {nullCluster, bm.cluster_count} :
          LET old_cluster == bm.cluster_assignment[vertex]
              decremented == [bm EXCEPT !.clusters_sizes[old_cluster] = @ - 1]
          IN  /\ result' = [call        |-> "move_vertex",
                            before      |-> bm,
                            vertex      |-> vertex,
                            new_cluster |-> new_cluster]
              /\ last' = Op("move_vertex_outside", vertex, old_cluster,
                            new_cluster)
              /\ IF old_cluster = new_cluster \/ ~InRange(bm, old_cluster)
                 THEN /\ bm' = bm
                      /\ pc' = "ready"
                 ELSE \/ /\ bm' = [decremented EXCEPT
                                      !.cluster_assignment[vertex] = new_cluster]
                         /\ pc' = "ready"
                      \/ /\ bm' = decremented
                         /\ pc' = "crashed"
    /\ UNCHANGED <<G, algorithm, ret, target, proposals_per_split, iter,
                   num_iterations, round, h_start, forced_merge, frame,
                   explored, commits, par>>

NextMove ==
    \/ MoveVertex
    \/ MoveVertexOutside

SpecMove == InitMove /\ [][NextMove]_vars

\* C29 as stated: move_vertex(v, new_cluster) with v in [0, N), a valid
\* current cluster and new_cluster outside [0, K) writes nothing: the call
\* returns, and assignment, sizes and block matrix are what they were.
C29_AsStated ==
    (/\ last.op = "move_vertex_outside"
     /\ InRange(result.before,
                result.before.cluster_assignment[result.vertex]))
    => /\ pc = "ready"
       /\ bm = result.before

-----------------------------------------------------------------------------
(* The terms compute_delta_H_merge accounts for *)

(* the pairs (r, s) whose likelihood term of compute_H involves c1 or c2 *)
TouchedPairs(block_model, c1, c2) ==
    {p \in (0..block_model.cluster_count-1) \X (0..block_model.cluster_count-1) :
        p[1] \in {c1, c2} \/ p[2] \in {c1, c2}}

(* the sum of the likelihood terms of compute_H over a set of pairs (r, s) *)
RECURSIVE LikelihoodTerms(_, _)
LikelihoodTerms(block_model, pairs) ==
    IF pairs = {} THEN 0
    ELSE LET p == CHOOSE q \in pairs : TRUE
         IN  entropy_term(block_model, p[1], p[2])
             + LikelihoodTerms(block_model, pairs \ {p})

(* the sum of the terms of the merged row and column, for the clusters in  *)
(* others, with counts B[c1][k] + B[c2][k] and size n1 + n2                *)
RECURSIVE MergedTerms(_, _, _, _)
MergedTerms(block_model, c1, c2, others) ==
    IF others = {} THEN 0
    ELSE LET k  == CHOOSE x \in others : TRUE
             B  == block_model.block_matrix
             nk == block_model.clusters_sizes[k]
             n_merged == block_model.clusters_sizes[c1]
                         + block_model.clusters_sizes[c2]
         IN  (IF nk > 0
              THEN merge_term(B[c1][k] + B[c2][k], n_merged, nk)
                   + merge_term(B[k][c1] + B[k][c2], nk, n_merged)
              ELSE 0)
             + MergedTerms(block_model, c1, c2, others \ {k})

\* C30 as stated: for distinct non-empty clusters c1 and c2 the result of
\* compute_delta_H_merge is made of: every likelihood term (r, s) of
\* compute_H with r or s in {c1, c2} taken out exactly once, the diagonal
\* terms and the cross terms (c1, c2), (c2, c1) included; every term of the
\* merged row and column put in exactly once, with the merged self term of
\* B[c1][c1] + B[c2][c2] + B[c1][c2] + B[c2][c1]; and the complexity changed
\* by -K * log(N).
C30_AsStated ==
    (/\ result.call = "compute_delta_H_merge"
     /\ InRange(bm, result.c1) /\ InRange(bm, result.c2)
     /\ result.c1 # result.c2
     /\ bm.clusters_sizes[result.c1] > 0
     /\ bm.clusters_sizes[result.c2] > 0)
        => LET c1 == result.c1
               c2 == result.c2
               B  == bm.block_matrix
               n_merged == bm.clusters_sizes[c1] + bm.clusters_sizes[c2]
               delta_entropy ==
                   - LikelihoodTerms(bm, TouchedPairs(bm, c1, c2))
                   + MergedTerms(bm, c1, c2,
                                 (0..bm.cluster_count-1) \ {c1, c2})
                   + merge_term(B[c1][c1] + B[c2][c2] + B[c1][c2] + B[c2][c1],
                                n_merged, n_merged)
           IN  result.value
                  = - delta_entropy
                    - bm.cluster_count * Ln[get_vertex_count(G)]

====
